---- MODULE Spec2Model ----
(***************************************************************************)
(* Plugin lifecycle manager and command bus of the launcher                *)
(* (rust/server/src/plugins/mod.rs, ApplicationManager).                   *)
(*                                                                         *)
(* The manager's public operations are asynchronous calls that run as      *)
(* independent tasks on a multi-threaded scheduler; every access to shared *)
(* state (the repository, the run-status holder, the broadcast channel,    *)
(* the search index) is one atomic step of the calling task.  Plugin       *)
(* runtimes are tasks of their own that read the broadcast channel.        *)
(*                                                                         *)
(* The UI bridge (src/react_side.rs, rust/client/src/dbus.rs) is the       *)
(* request/response channel between the host ops of a plugin and the       *)
(* request loop of run_react, and between DbusClient and the UI context.   *)
(***************************************************************************)
EXTENDS Naturals, Integers, Sequences, FiniteSets, TLC

\* ------------------------------------------------------------------ bounds
MaxTasks == 2        \* manager calls in flight at the same time
MaxCalls == 2        \* manager calls begun in one behaviour of Spec
MaxRuntimes == 3     \* plugin runtimes spawned in one behaviour (with Init's)
MaxLagSends == 102   \* commands sent in one behaviour of SpecLag
MaxOps == 2          \* UI requests made in one behaviour of SpecBridge
MaxSetProperties == 2   \* op_gtk_set_properties calls in one behaviour of SpecWorker
MaxProps == 2           \* entries of the props of one call in SpecWorker
MaxListenerCalls == 1   \* op_call_event_listener calls in one behaviour of SpecWorker
MaxSignals == 3         \* signals the UI process emits in one behaviour of SpecEvents
MaxWidgets == 2         \* widgets the UI process creates in one behaviour of SpecEvents
MaxName == 2            \* characters of a module name in SpecModuleLoader
MaxSaves == 2           \* save_plugin calls in one behaviour of SpecSavePlugin
MaxReaders == 1         \* list_plugins_and_entrypoints calls in one behaviour of SpecSavePlugin
MaxEntrypoints == 3     \* entrypoints of the plugin given to save_plugin
MaxAccesses == 1        \* host operations that touch a resource in one behaviour of SpecPermissions
MaxActions == 2         \* declared actions, and user entries, of the entrypoint row of SpecActionShortcuts

\* a channel created with half the capacity
BusCapacity_half == 100 \div 2

\* tokio::sync::broadcast::channel::<PluginCommand>(100)
BusCapacity == 100

PluginIds == {"p1", "p2"}
EntrypointIds == {"e1"}
PreferenceNames == {"n1", "n2"}
PreferenceValues == {"v1", "v2"}
\* a name the preferences map has no entry for
Unset == "unset"
Texts == {"abc"}
Tasks == 1..MaxTasks
\* a call that holds no broadcast receiver (it holds <<n>> after subscribe())
NoReceiver == <<>>
\* a budget of calls that is never used up
Unbounded == MaxCalls + 1

VARIABLES
    db_repository,        \* plugin table: id -> [exists, enabled]
    run_status_holder,    \* RunStatusHolder: set of running plugin ids
    search_index,         \* SearchIndex: plugin ids that have entries in it
    command_broadcaster,  \* every PluginCommand sent so far, oldest first
    runtimes,             \* plugin runtime tasks spawned so far
    tasks,                \* manager calls: one record per task slot
    calls,                \* number of manager calls that may still begin, or Unbounded
    plugin_entrypoint,    \* plugin_entrypoint table: <<plugin, entrypoint>> -> enabled
    preferences_user_data,\* preferences_user_data column: record -> name -> value
    once,                 \* what a first set_plugin_state call left, for a repeated one
    ui_ops,               \* UI bridge: the requests made so far, with their response slots
    ui_handler,           \* UI bridge: the request handler loop of each plugin's run_react
    ui_process,           \* the requests handed to the UI process, with the plugin id they carry
    event_handlers,       \* EventHandlers.listeners of one worker: <<widget, event_name>> -> callable
    microtasks,           \* the worker's microtask queue: the callables enqueued so far
    properties,           \* the set_properties calls of the worker and their wire payloads
    signals,              \* the inbound signal streams of one plugin and what its event stream yielded
    shortcuts,            \* an entrypoint's row (actions, actions_user_data) and what action_shortcuts returned
    module_loader,        \* CustomModuleLoader: the plugin's scripts, an import and what resolve and load returned
    pool,                 \* the SQLite pool: committed plugin and plugin_entrypoint rows, open transactions, readers
    permissions           \* a plugin's PluginPermissions and the accesses its worker was asked for

\* what the plugin lifecycle calls and the plugin runtimes never touch
\* the state of a plugin's worker and of the UI process
host == <<ui_process, event_handlers, microtasks, properties, signals,
          shortcuts, module_loader, pool, permissions>>

others == <<plugin_entrypoint, preferences_user_data, once, ui_ops, ui_handler, host>>

vars == <<db_repository, run_status_holder, search_index, command_broadcaster,
          runtimes, tasks, calls, others>>

\* --------------------------------------------------------------- commands
\* PluginCommand::One { id, data } and PluginCommand::All { data }
PluginCommandOne(id, kind, arg) == [to |-> id, kind |-> kind, arg |-> arg]

PluginCommandAll(kind, arg) == [to |-> "All", kind |-> kind, arg |-> arg]

\* an effect of a manager call, in the order the call performed it
Ev(ev, to, kind, arg) == [ev |-> ev, to |-> to, kind |-> kind, arg |-> arg]

EvSend(cmd) == Ev("send", cmd.to, cmd.kind, cmd.arg)

\* ------------------------------------------------------- run-status holder
is_plugin_running(holder, id) == id \in holder

start_block(holder, id) == holder \cup {id}

\* Drop of the RunStatusGuard
guard_drop(holder, id) == holder \ {id}

\* ------------------------------------------------------------- repository
is_plugin_enabled(db, id) == db[id].enabled

\* UPDATE plugin SET enabled = ?1 WHERE id = ?2 (no row: nothing changes)
set_plugin_enabled(db, id, enabled) ==
    IF db[id].exists THEN [db EXCEPT ![id].enabled = enabled] ELSE db

\* the row is kept and only disabled
db_remove_plugin_keeps_row(db, id) == [db EXCEPT ![id].enabled = FALSE]

\* DELETE FROM plugin WHERE id = ?1
db_remove_plugin(db, id) == [db EXCEPT ![id] = [exists |-> FALSE, enabled |-> FALSE]]

\* the rows of the plugin table, in table order
PluginRows == <<"p1", "p2">>

Exists(db, id) == db[id].exists

\* SELECT * FROM plugin: a snapshot of the rows
list_plugins(db) ==
    LET ids == SelectSeq(PluginRows, LAMBDA id : Exists(db, id))
    IN [i \in 1..Len(ids) |-> [id |-> ids[i], enabled |-> db[ids[i]].enabled]]

\* ----------------------------------------------------------- search index
remove_for_plugin(index, id) == index \ {id}

\* a plugin publishing its entries (on ReloadSearchIndex)
save_for_plugin(index, id) == index \cup {id}

\* ------------------------------------------------------- broadcast channel
AliveRuntimes == {i \in 1..Len(runtimes) : runtimes[i].alive}

\* receivers of the channel: the live runtimes' and the ones start_plugin
\* holds between subscribe() and the spawn
ReceiverCount ==
    Cardinality(AliveRuntimes)
    + Cardinality({t \in Tasks : tasks[t].receiver # NoReceiver})

\* broadcast::Sender::send: Err when there is no receiver, and nothing is stored
SendOk == ReceiverCount > 0

\* ------------------------------------------------------------------ tasks
IdleTask ==
    [op |-> "none", plugin_id |-> "", arg |-> "", set_enabled |-> FALSE,
     pc |-> "idle", currently_running |-> FALSE, currently_enabled |-> FALSE,
     receiver |-> NoReceiver, plugins |-> <<>>, result |-> "none",
     trace |-> <<>>, returned_at |-> 0,
     preference_name |-> "", preference_value |-> "", user_data |-> <<>>]

Free(t) == tasks[t].pc \in {"idle", "done"}

InFlight(t) == ~Free(t)

NewCall(op, id, arg, enabled, pc) ==
    [IdleTask EXCEPT !.op = op, !.plugin_id = id, !.arg = arg,
                     !.set_enabled = enabled, !.pc = pc]

\* a call may begin in the lowest free slot; reload_all_plugins takes
\* &mut self, so it runs alone
CanCall(t, op) ==
    /\ Free(t)
    /\ \A u \in Tasks : u < t => InFlight(u)
    /\ calls # 0
    /\ \A u \in Tasks : InFlight(u) => (tasks[u].op # "reload_all_plugins" /\ op # "reload_all_plugins")

Spend(budget) == IF budget = Unbounded THEN budget ELSE budget - 1

\* the call returns res (or aborts: "panic"); returned_at is the number of
\* commands sent on the channel before that
Done(task, res) ==
    [task EXCEPT !.pc = "done", !.result = res,
                 !.returned_at = Len(command_broadcaster)]

Log(task, e) == [task EXCEPT !.trace = Append(@, e)]

\* the guard is not handed to the spawned task
start_plugin_runtime_keeps_guard(id, receiver) ==
    [id |-> id, start |-> receiver, next |-> receiver, alive |-> TRUE,
     guard |-> FALSE, seen |-> <<>>, skipped |-> <<>>]

\* ApplicationManager::start_plugin_runtime: the spawned task owns the guard
\* start_block returned and the receiver start_plugin subscribed.  start is
\* the number of commands sent before the receiver was created, next the
\* number it has passed, seen the commands it processed, skipped the ones it
\* lost by lagging
start_plugin_runtime(id, receiver) ==
    [id |-> id, start |-> receiver, next |-> receiver, alive |-> TRUE,
     guard |-> TRUE, seen |-> <<>>, skipped |-> <<>>]

\* the records that hold preferences: <<plugin>> is the plugin's row,
\* <<plugin, entrypoint>> the entrypoint's
PreferenceRecords == {<<p>> : p \in PluginIds} \cup (PluginIds \X EntrypointIds)

\* no entrypoint row read and no call of action_shortcuts made
InitShortcuts ==
    shortcuts = [actions |-> <<>>, actions_user_data |-> <<>>,
                 returned |-> "none", result |-> <<>>]

\* a loader with no script and no import to resolve
InitModuleLoader ==
    module_loader = [js |-> <<>>, imports |-> <<>>]

\* an empty database with no transaction and no reader
InitPool ==
    pool = [plugin |-> {}, plugin_entrypoint |-> {}, tx |-> <<>>, readers |-> <<>>]

\* no worker bootstrapped
InitPermissions ==
    permissions = [plugin |-> {}, data |-> [built |-> FALSE, permissions |-> {}],
                   container |-> [built |-> FALSE, allow_all |-> FALSE, granted |-> {}],
                   accesses |-> <<>>]

\* the tables, the snapshot and the UI bridge before anything used them
InitTables ==
    /\ plugin_entrypoint = [k \in PluginIds \X EntrypointIds |-> TRUE]
    /\ preferences_user_data = [k \in PreferenceRecords |-> [n \in PreferenceNames |-> Unset]]
    /\ once = <<>>
    /\ ui_ops = <<>>
    /\ ui_handler = [p \in PluginIds |-> [state |-> "recv", request |-> 0]]
    /\ ui_process = <<>>
    /\ event_handlers = <<>>
    /\ microtasks = [calls |-> <<>>, queue |-> <<>>, ran |-> <<>>]
    /\ properties = <<>>
    /\ signals = [emitted |-> <<>>, created |-> 0, widgets |-> {},
                  streams |-> [p \in PluginIds |-> [view_event |-> <<>>, view_created |-> <<>>]],
                  event_stream |-> [p \in PluginIds |-> <<>>]]

\* everything the plugin lifecycle calls never touch, before anything used it
InitOthers ==
    /\ InitTables
    /\ InitShortcuts
    /\ InitModuleLoader
    /\ InitPool
    /\ InitPermissions

Init ==
    /\ InitOthers
    /\ \E on \in SUBSET PluginIds :
        /\ db_repository = [p \in PluginIds |-> [exists |-> TRUE, enabled |-> p \in on]]
        /\ run_status_holder = on
        /\ search_index = on
        /\ runtimes = LET ids == SelectSeq(PluginRows, LAMBDA id : id \in on)
                      IN [i \in 1..Len(ids) |-> start_plugin_runtime(ids[i], 0)]
    /\ command_broadcaster = <<>>
    /\ tasks = [t \in Tasks |-> IdleTask]
    /\ calls = MaxCalls

\* ------------------------------------------------- steps shared by calls
Step(t, task) == /\ tasks' = [tasks EXCEPT ![t] = task]
                 /\ UNCHANGED others

Begin(t, task) == /\ Step(t, task)
                  /\ calls' = Spend(calls)

\* where a call goes on after start_plugin returned Ok
AfterStart(task) ==
    IF task.op = "reload_all_plugins"
    THEN [task EXCEPT !.pc = "reload_all_plugins.loop"]
    ELSE Done(task, "ok")

\* set_plugin_state returns right after stop_plugin
AfterStop_no_remove(task) ==
    CASE task.op = "remove_plugin" -> [task EXCEPT !.pc = "remove_plugin.delete"]
      [] task.op = "reload_plugin" -> [task EXCEPT !.pc = "start_plugin.load"]
      [] task.op = "set_plugin_state" -> Done(task, "ok")
      [] OTHER -> [task EXCEPT !.pc = "remove_for_plugin"]

\* where a call goes on after stop_plugin returned
AfterStop(task) ==
    CASE task.op = "remove_plugin" -> [task EXCEPT !.pc = "remove_plugin.delete"]
      [] task.op = "reload_plugin" -> [task EXCEPT !.pc = "start_plugin.load"]
      [] OTHER -> [task EXCEPT !.pc = "remove_for_plugin"]

\* where a call goes on after search_index.remove_for_plugin returned Ok
AfterRemoveForPlugin(task) ==
    IF task.op = "reload_all_plugins"
    THEN [task EXCEPT !.pc = "reload_all_plugins.loop"]
    ELSE Done(task, "ok")

\* ApplicationManager::send_command: the broadcast send, and the expect
\* that aborts the call when no receiver is left
send_command(t, task, cmd, after) ==
    IF SendOk
    THEN /\ command_broadcaster' = Append(command_broadcaster, cmd)
         /\ Step(t, IF after.pc = "done"
                    THEN [after EXCEPT !.returned_at = Len(command_broadcaster) + 1]
                    ELSE after)
    ELSE /\ UNCHANGED command_broadcaster
         /\ Step(t, Done(task, "panic"))

\* ApplicationManager::stop_plugin
stop_plugin_command(plugin_id) == PluginCommandOne(plugin_id, "Stop", "")

stop_plugin(t) ==
    LET task == tasks[t]
        cmd == stop_plugin_command(task.plugin_id)
    IN /\ task.pc = "stop_plugin"
       /\ send_command(t, task, cmd, AfterStop(Log(task, EvSend(cmd))))
       /\ UNCHANGED <<db_repository, run_status_holder, search_index, runtimes, calls>>

\* search_index.remove_for_plugin(plugin_id)?
index_remove_for_plugin(t) ==
    LET task == tasks[t]
    IN /\ task.pc = "remove_for_plugin"
       /\ \/ /\ search_index' = remove_for_plugin(search_index, task.plugin_id)
             /\ Step(t, AfterRemoveForPlugin(Log(task, Ev("remove_for_plugin", task.plugin_id, "", ""))))
          \/ /\ UNCHANGED search_index
             /\ Step(t, Done(task, "err"))
       /\ UNCHANGED <<db_repository, run_status_holder, command_broadcaster, runtimes, calls>>

\* a failed load sets the enabled flag back
start_plugin_load_rolls_back(t) ==
    LET task == tasks[t]
    IN /\ task.pc = "start_plugin.load"
       /\ \/ /\ Exists(db_repository, task.plugin_id)
             /\ Step(t, [task EXCEPT !.pc = "start_plugin.subscribe"])
             /\ UNCHANGED db_repository
          \/ /\ Step(t, Done(task, "err"))
             /\ db_repository' = set_plugin_enabled(db_repository, task.plugin_id, FALSE)
       /\ UNCHANGED <<run_status_holder, search_index,
                      command_broadcaster, runtimes, calls>>

\* ApplicationManager::start_plugin: get_plugin_by_id and
\* get_inline_view_entrypoint_id_for_plugin, then subscribe, then
\* start_plugin_runtime
start_plugin_load(t) ==
    LET task == tasks[t]
    IN /\ task.pc = "start_plugin.load"
       /\ \/ /\ Exists(db_repository, task.plugin_id)
             /\ Step(t, [task EXCEPT !.pc = "start_plugin.subscribe"])
          \/ Step(t, Done(task, "err"))
       /\ UNCHANGED <<db_repository, run_status_holder, search_index,
                      command_broadcaster, runtimes, calls>>

\* the receiver is one that was created with the channel and sees every
\* command sent so far
start_plugin_subscribe_sees_all(t) ==
    LET task == tasks[t]
    IN /\ task.pc = "start_plugin.subscribe"
       /\ Step(t, [task EXCEPT !.pc = "start_plugin.spawn", !.receiver = <<0>>])
       /\ UNCHANGED <<db_repository, run_status_holder, search_index,
                      command_broadcaster, runtimes, calls>>

\* let receiver = self.command_broadcaster.subscribe(): the receiver sees
\* the commands sent after this point
start_plugin_subscribe(t) ==
    LET task == tasks[t]
    IN /\ task.pc = "start_plugin.subscribe"
       /\ Step(t, [task EXCEPT !.pc = "start_plugin.spawn",
                               !.receiver = <<Len(command_broadcaster)>>])
       /\ UNCHANGED <<db_repository, run_status_holder, search_index,
                      command_broadcaster, runtimes, calls>>

start_plugin_spawn(t) ==
    LET task == tasks[t]
    IN /\ task.pc = "start_plugin.spawn"
       /\ Len(runtimes) < MaxRuntimes
       /\ run_status_holder' = start_block(run_status_holder, task.plugin_id)
       /\ runtimes' = Append(runtimes, start_plugin_runtime(task.plugin_id, task.receiver[1]))
       /\ Step(t, AfterStart(Log([task EXCEPT !.receiver = NoReceiver],
                                 Ev("start", task.plugin_id, "", ""))))
       /\ UNCHANGED <<db_repository, search_index, command_broadcaster, calls>>

start_plugin(t) ==
    \/ start_plugin_load(t)
    \/ start_plugin_subscribe(t)
    \/ start_plugin_spawn(t)

\* ------------------------------------------------------- set_plugin_state
\* the first two arms merged: the flag is written though it is already true
set_plugin_state_match_always_persist(currently_running, currently_enabled, set_enabled) ==
    CASE ~currently_running /\ set_enabled -> "enable_start"
      [] currently_running /\ currently_enabled /\ ~set_enabled -> "disable_stop"
      [] currently_running /\ ~currently_enabled -> "log"
      [] OTHER -> "noop"

\* the second arm without its first component: a running plugin is started
set_plugin_state_match_restart(currently_running, currently_enabled, set_enabled) ==
    CASE ~currently_running /\ ~currently_enabled /\ set_enabled -> "enable_start"
      [] currently_enabled /\ set_enabled -> "start"
      [] currently_running /\ currently_enabled /\ ~set_enabled -> "disable_stop"
      [] currently_running /\ ~currently_enabled -> "log"
      [] OTHER -> "noop"

\* the match on (currently_running, currently_enabled, set_enabled)
set_plugin_state_match(currently_running, currently_enabled, set_enabled) ==
    CASE ~currently_running /\ ~currently_enabled /\ set_enabled -> "enable_start"
      [] ~currently_running /\ currently_enabled /\ set_enabled -> "start"
      [] currently_running /\ currently_enabled /\ ~set_enabled -> "disable_stop"
      [] currently_running /\ ~currently_enabled -> "log"
      [] OTHER -> "noop"

set_plugin_state_call(t, plugin_id, set_enabled) ==
    /\ CanCall(t, "set_plugin_state")
    /\ Begin(t, NewCall("set_plugin_state", plugin_id, "", set_enabled,
                        "set_plugin_state.running"))
    /\ UNCHANGED <<db_repository, run_status_holder, search_index,
                   command_broadcaster, runtimes>>

set_plugin_state_running(t) ==
    LET task == tasks[t]
    IN /\ task.pc = "set_plugin_state.running"
       /\ Step(t, [task EXCEPT !.pc = "set_plugin_state.enabled",
                     !.currently_running = is_plugin_running(run_status_holder, task.plugin_id)])
       /\ UNCHANGED <<db_repository, run_status_holder, search_index,
                      command_broadcaster, runtimes, calls>>

set_plugin_state_enabled(t) ==
    LET task == tasks[t]
        enabled == is_plugin_enabled(db_repository, task.plugin_id)
        branch == set_plugin_state_match(task.currently_running, enabled, task.set_enabled)
        read == [task EXCEPT !.currently_enabled = enabled]
    IN /\ task.pc = "set_plugin_state.enabled"
       /\ \/ /\ Exists(db_repository, task.plugin_id)
             /\ Step(t, CASE branch \in {"enable_start", "disable_stop"} ->
                               [read EXCEPT !.pc = "set_plugin_state.persist"]
                          [] branch = "start" -> [read EXCEPT !.pc = "start_plugin.load"]
                          [] OTHER -> Done(read, "ok"))
          \/ Step(t, Done(task, "err"))
       /\ UNCHANGED <<db_repository, run_status_holder, search_index,
                      command_broadcaster, runtimes, calls>>

set_plugin_state_persist(t) ==
    LET task == tasks[t]
    IN /\ task.pc = "set_plugin_state.persist"
       /\ \/ /\ db_repository' = set_plugin_enabled(db_repository, task.plugin_id, task.set_enabled)
             /\ Step(t, [Log(task, Ev("set_plugin_enabled", task.plugin_id,
                                      IF task.set_enabled THEN "true" ELSE "false", ""))
                           EXCEPT !.pc = IF task.set_enabled THEN "start_plugin.load"
                                         ELSE "stop_plugin"])
          \/ /\ UNCHANGED db_repository
             /\ Step(t, Done(task, "err"))
       /\ UNCHANGED <<run_status_holder, search_index, command_broadcaster,
                      runtimes, calls>>

set_plugin_state(t) ==
    \/ set_plugin_state_running(t)
    \/ set_plugin_state_enabled(t)
    \/ set_plugin_state_persist(t)

\* --------------------------------------------------- set_entrypoint_state
\* DataDbRepository::set_plugin_entrypoint_enabled: UPDATE plugin_entrypoint
\* SET enabled = ?1 WHERE id = ?2 AND plugin_id = ?3
set_plugin_entrypoint_enabled(table, plugin_id, entrypoint_id, enabled) ==
    [table EXCEPT ![<<plugin_id, entrypoint_id>>] = enabled]

set_entrypoint_state_call(t, plugin_id, entrypoint_id, enabled) ==
    /\ CanCall(t, "set_entrypoint_state")
    /\ Begin(t, NewCall("set_entrypoint_state", plugin_id, entrypoint_id, enabled,
                        "set_entrypoint_state.persist"))
    /\ UNCHANGED <<db_repository, run_status_holder, search_index,
                   command_broadcaster, runtimes>>

\* the error of the repository is only dropped, the reload is requested
set_entrypoint_state_persist_ignores_error(t) ==
    LET task == tasks[t]
        persisted == Log(task, Ev("set_plugin_entrypoint_enabled", task.plugin_id,
                                  IF task.set_enabled THEN "true" ELSE "false", task.arg))
    IN /\ task.pc = "set_entrypoint_state.persist"
       /\ \/ /\ plugin_entrypoint' = set_plugin_entrypoint_enabled(
                    plugin_entrypoint, task.plugin_id, task.arg, task.set_enabled)
             /\ tasks' = [tasks EXCEPT ![t] =
                    [persisted EXCEPT !.pc = "set_entrypoint_state.reload"]]
          \/ /\ UNCHANGED plugin_entrypoint
             /\ tasks' = [tasks EXCEPT ![t] =
                    [task EXCEPT !.pc = "set_entrypoint_state.reload"]]
       /\ UNCHANGED <<db_repository, run_status_holder, search_index,
                      command_broadcaster, runtimes, calls,
                      preferences_user_data, once, ui_ops, ui_handler, host>>

\* self.db_repository.set_plugin_entrypoint_enabled(..).await?
set_entrypoint_state_persist(t) ==
    LET task == tasks[t]
        persisted == Log(task, Ev("set_plugin_entrypoint_enabled", task.plugin_id,
                                  IF task.set_enabled THEN "true" ELSE "false", task.arg))
    IN /\ task.pc = "set_entrypoint_state.persist"
       /\ \/ /\ plugin_entrypoint' = set_plugin_entrypoint_enabled(
                    plugin_entrypoint, task.plugin_id, task.arg, task.set_enabled)
             /\ tasks' = [tasks EXCEPT ![t] =
                    [persisted EXCEPT !.pc = "set_entrypoint_state.reload"]]
          \/ /\ UNCHANGED plugin_entrypoint
             /\ tasks' = [tasks EXCEPT ![t] = Done(task, "err")]
       /\ UNCHANGED <<db_repository, run_status_holder, search_index,
                      command_broadcaster, runtimes, calls,
                      preferences_user_data, once, ui_ops, ui_handler, host>>

\* self.request_search_index_reload(plugin_id); Ok(())
set_entrypoint_state_reload(t) ==
    LET task == tasks[t]
        cmd == PluginCommandOne(task.plugin_id, "ReloadSearchIndex", "")
    IN /\ task.pc = "set_entrypoint_state.reload"
       /\ send_command(t, task, cmd, Done(Log(task, EvSend(cmd)), "ok"))
       /\ UNCHANGED <<db_repository, run_status_holder, search_index, runtimes, calls>>

set_entrypoint_state(t) ==
    \/ set_entrypoint_state_persist(t)
    \/ set_entrypoint_state_reload(t)

\* --------------------------------------------------- set_preference_value
\* entrypoint_id: Option<EntrypointId>
NoEntrypoint == ""

\* the record DataDbRepository::set_preference_value addresses: the plugin's
\* row for None, the entrypoint's row for Some(entrypoint_id)
PreferenceRecord(plugin_id, entrypoint_id) ==
    IF entrypoint_id = NoEntrypoint THEN <<plugin_id>> ELSE <<plugin_id, entrypoint_id>>

set_preference_value_call(t, plugin_id, entrypoint_id, preference_name, preference_value) ==
    /\ CanCall(t, "set_preference_value")
    /\ Begin(t, [NewCall("set_preference_value", plugin_id, entrypoint_id, FALSE,
                         "set_preference_value.get")
                   EXCEPT !.preference_name = preference_name,
                          !.preference_value = preference_value])
    /\ UNCHANGED <<db_repository, run_status_holder, search_index,
                   command_broadcaster, runtimes>>

\* get_plugin_by_id(..).await?.preferences_user_data, or
\* get_entrypoint_by_id(..).await?.preferences_user_data
set_preference_value_get(t) ==
    LET task == tasks[t]
        record == PreferenceRecord(task.plugin_id, task.arg)
    IN /\ task.pc = "set_preference_value.get"
       /\ \/ /\ Exists(db_repository, task.plugin_id)
             /\ Step(t, [task EXCEPT !.user_data = preferences_user_data[record],
                                     !.pc = "set_preference_value.update"])
          \/ Step(t, Done(task, "err"))
       /\ UNCHANGED <<db_repository, run_status_holder, search_index,
                      command_broadcaster, runtimes, calls>>

\* user_data.insert(name, value); UPDATE .. SET preferences_user_data = ?1:
\* the map read by the get step is written back whole
set_preference_value_update(t) ==
    LET task == tasks[t]
        record == PreferenceRecord(task.plugin_id, task.arg)
        user_data == [task.user_data EXCEPT ![task.preference_name] = task.preference_value]
    IN /\ task.pc = "set_preference_value.update"
       /\ \/ /\ preferences_user_data' = [preferences_user_data EXCEPT ![record] = user_data]
             /\ tasks' = [tasks EXCEPT ![t] = Done(task, "ok")]
          \/ /\ UNCHANGED preferences_user_data
             /\ tasks' = [tasks EXCEPT ![t] = Done(task, "err")]
       /\ UNCHANGED <<db_repository, run_status_holder, search_index,
                      command_broadcaster, runtimes, calls,
                      plugin_entrypoint, once, ui_ops, ui_handler, host>>

set_preference_value(t) ==
    \/ set_preference_value_get(t)
    \/ set_preference_value_update(t)

\* ---------------------------------------------------------- reload_plugin
reload_plugin_call(t, plugin_id) ==
    /\ CanCall(t, "reload_plugin")
    /\ Begin(t, NewCall("reload_plugin", plugin_id, "", FALSE, "reload_plugin.running"))
    /\ UNCHANGED <<db_repository, run_status_holder, search_index,
                   command_broadcaster, runtimes>>

reload_plugin(t) ==
    LET task == tasks[t]
        running == is_plugin_running(run_status_holder, task.plugin_id)
    IN /\ task.pc = "reload_plugin.running"
       /\ Step(t, [task EXCEPT !.currently_running = running,
                               !.pc = IF running THEN "stop_plugin" ELSE "start_plugin.load"])
       /\ UNCHANGED <<db_repository, run_status_holder, search_index,
                      command_broadcaster, runtimes, calls>>

\* ---------------------------------------------------------- remove_plugin
remove_plugin_call(t, plugin_id) ==
    /\ CanCall(t, "remove_plugin")
    /\ Begin(t, NewCall("remove_plugin", plugin_id, "", FALSE, "stop_plugin"))
    /\ UNCHANGED <<db_repository, run_status_holder, search_index,
                   command_broadcaster, runtimes>>

remove_plugin(t) ==
    LET task == tasks[t]
    IN /\ task.pc = "remove_plugin.delete"
       /\ \/ /\ db_repository' = db_remove_plugin(db_repository, task.plugin_id)
             /\ Step(t, [Log(task, Ev("remove_plugin", task.plugin_id, "", ""))
                           EXCEPT !.pc = "remove_for_plugin"])
          \/ /\ UNCHANGED db_repository
             /\ Step(t, Done(task, "err"))
       /\ UNCHANGED <<run_status_holder, search_index, command_broadcaster,
                      runtimes, calls>>

\* ----------------------------------------------------- reload_all_plugins
reload_all_plugins_call(t) ==
    /\ CanCall(t, "reload_all_plugins")
    /\ Begin(t, NewCall("reload_all_plugins", "", "", FALSE, "reload_all_plugins.config"))
    /\ UNCHANGED <<db_repository, run_status_holder, search_index,
                   command_broadcaster, runtimes>>

\* self.reload_config().await?
reload_all_plugins_config(t) ==
    LET task == tasks[t]
    IN /\ task.pc = "reload_all_plugins.config"
       /\ \/ Step(t, [Log(task, Ev("reload_config", "", "", ""))
                        EXCEPT !.pc = "reload_all_plugins.list"])
          \/ Step(t, Done(task, "err"))
       /\ UNCHANGED <<db_repository, run_status_holder, search_index,
                      command_broadcaster, runtimes, calls>>

\* self.db_repository.list_plugins().await?
reload_all_plugins_list(t) ==
    LET task == tasks[t]
    IN /\ task.pc = "reload_all_plugins.list"
       /\ \/ Step(t, [task EXCEPT !.plugins = list_plugins(db_repository),
                                  !.pc = "reload_all_plugins.loop"])
          \/ Step(t, Done(task, "err"))
       /\ UNCHANGED <<db_repository, run_status_holder, search_index,
                      command_broadcaster, runtimes, calls>>

\* the second arm taken for every running plugin
reload_all_plugins_match_stops_running(running, enabled) ==
    CASE ~running /\ enabled -> "start_plugin.load"
      [] running -> "stop_plugin"
      [] OTHER -> "reload_all_plugins.loop"

\* the match on (running, plugin.enabled) of one row
reload_all_plugins_match(running, enabled) ==
    CASE ~running /\ enabled -> "start_plugin.load"
      [] running /\ ~enabled -> "stop_plugin"
      [] OTHER -> "reload_all_plugins.loop"

reload_all_plugins_loop(t) ==
    LET task == tasks[t]
    IN /\ task.pc = "reload_all_plugins.loop"
       /\ IF task.plugins = <<>>
          THEN Step(t, Done(task, "ok"))
          ELSE LET plugin == Head(task.plugins)
                   running == is_plugin_running(run_status_holder, plugin.id)
               IN Step(t, [task EXCEPT !.plugins = Tail(@),
                                       !.plugin_id = plugin.id,
                                       !.currently_running = running,
                                       !.currently_enabled = plugin.enabled,
                                       !.pc = reload_all_plugins_match(running, plugin.enabled)])
       /\ UNCHANGED <<db_repository, run_status_holder, search_index,
                      command_broadcaster, runtimes, calls>>

reload_all_plugins(t) ==
    \/ reload_all_plugins_config(t)
    \/ reload_all_plugins_list(t)
    \/ reload_all_plugins_loop(t)

\* ------------------------------------------------- command-sending calls
\* a call that begins by sending cmd and then goes on at pc (or is done)
SendCall(t, op, plugin_id, arg, cmd, pc) ==
    LET task == NewCall(op, plugin_id, arg, FALSE, pc)
        sent == Log(task, EvSend(cmd))
    IN /\ CanCall(t, op)
       /\ send_command(t, task, cmd, IF pc = "done" THEN Done(sent, "ok") ELSE sent)
       /\ calls' = Spend(calls)
       /\ UNCHANGED <<db_repository, run_status_holder, search_index, runtimes>>

handle_inline_view(t, text) ==
    SendCall(t, "handle_inline_view", "", text,
             PluginCommandAll("OpenInlineView", text), "done")

handle_run_command(t, plugin_id, entrypoint_id) ==
    SendCall(t, "handle_run_command", plugin_id, entrypoint_id,
             PluginCommandOne(plugin_id, "RunCommand", entrypoint_id),
             "mark_entrypoint_frecency")

handle_run_generated_command(t, plugin_id, entrypoint_id) ==
    SendCall(t, "handle_run_generated_command", plugin_id, entrypoint_id,
             PluginCommandOne(plugin_id, "RunGeneratedCommand", entrypoint_id),
             "mark_entrypoint_frecency")

\* request_search_index_reload called without marking frecency
handle_render_view_no_frecency(t, plugin_id, entrypoint_id) ==
    SendCall(t, "handle_render_view", plugin_id, entrypoint_id,
             PluginCommandOne(plugin_id, "RenderView", entrypoint_id),
             "mark_entrypoint_frecency.reload")

handle_render_view(t, plugin_id, entrypoint_id) ==
    SendCall(t, "handle_render_view", plugin_id, entrypoint_id,
             PluginCommandOne(plugin_id, "RenderView", entrypoint_id),
             "mark_entrypoint_frecency")

handle_view_close(t, plugin_id) ==
    SendCall(t, "handle_view_close", plugin_id, "",
             PluginCommandOne(plugin_id, "CloseView", ""), "done")

handle_view_event(t, plugin_id, event) ==
    SendCall(t, "handle_view_event", plugin_id, event,
             PluginCommandOne(plugin_id, "HandleViewEvent", event), "done")

\* plugin id and entrypoint id swapped in the command
handle_keyboard_event_swapped(t, plugin_id, entrypoint_id) ==
    SendCall(t, "handle_keyboard_event", plugin_id, entrypoint_id,
             PluginCommandOne(entrypoint_id, "HandleKeyboardEvent", plugin_id), "done")

handle_keyboard_event(t, plugin_id, entrypoint_id) ==
    SendCall(t, "handle_keyboard_event", plugin_id, entrypoint_id,
             PluginCommandOne(plugin_id, "HandleKeyboardEvent", entrypoint_id), "done")

request_search_index_reload(t, plugin_id) ==
    SendCall(t, "request_search_index_reload", plugin_id, "",
             PluginCommandOne(plugin_id, "ReloadSearchIndex", ""), "done")

\* the repository's error returned with ?
mark_entrypoint_frecency_db_propagates(t) ==
    LET task == tasks[t]
    IN /\ task.pc = "mark_entrypoint_frecency"
       /\ \/ Step(t, [Log(task, Ev("mark_entrypoint_frecency", task.plugin_id, "ok", task.arg))
                       EXCEPT !.pc = "mark_entrypoint_frecency.reload"])
          \/ Step(t, Done(Log(task, Ev("mark_entrypoint_frecency", task.plugin_id, "err", task.arg)),
                          "err"))
       /\ UNCHANGED <<db_repository, run_status_holder, search_index,
                      command_broadcaster, runtimes, calls>>

\* ApplicationManager::mark_entrypoint_frecency: the repository's result is
\* only logged, then request_search_index_reload
mark_entrypoint_frecency_db(t) ==
    LET task == tasks[t]
    IN /\ task.pc = "mark_entrypoint_frecency"
       /\ \E result \in {"ok", "err"} :
            Step(t, [Log(task, Ev("mark_entrypoint_frecency", task.plugin_id, result, task.arg))
                       EXCEPT !.pc = "mark_entrypoint_frecency.reload"])
       /\ UNCHANGED <<db_repository, run_status_holder, search_index,
                      command_broadcaster, runtimes, calls>>

mark_entrypoint_frecency_reload(t) ==
    LET task == tasks[t]
        cmd == PluginCommandOne(task.plugin_id, "ReloadSearchIndex", "")
    IN /\ task.pc = "mark_entrypoint_frecency.reload"
       /\ send_command(t, task, cmd, Done(Log(task, EvSend(cmd)), "ok"))
       /\ UNCHANGED <<db_repository, run_status_holder, search_index, runtimes, calls>>

mark_entrypoint_frecency(t) ==
    \/ mark_entrypoint_frecency_db(t)
    \/ mark_entrypoint_frecency_reload(t)

\* --------------------------------------------------------- plugin runtime
\* the subscriber's filter: All is for everyone, One { id } for plugin id
CommandIsFor(id, cmd) == cmd.to = "All" \/ cmd.to = id

\* the end of a runtime task by any path: what the task owns is dropped
RuntimeEnd(rt) == [rt EXCEPT !.alive = FALSE]

HolderAfterEnd(rt) ==
    IF rt.guard THEN guard_drop(run_status_holder, rt.id) ELSE run_status_holder

\* the receiver fell behind by more than the channel retains: it skips to
\* the oldest retained command and reloads its search index entries
RuntimeLagged(i) ==
    LET rt == runtimes[i]
        tail == Len(command_broadcaster)
        oldest == tail - BusCapacity
    IN /\ rt.alive
       /\ tail - rt.next > BusCapacity
       /\ runtimes' = [runtimes EXCEPT ![i] =
             [rt EXCEPT !.next = oldest,
                        !.skipped = @ \o [k \in 1..(oldest - rt.next) |->
                            [cmd |-> command_broadcaster[rt.next + k],
                             behind |-> tail - (rt.next + k)]]]]
       /\ search_index' = save_for_plugin(search_index, rt.id)
       /\ UNCHANGED <<db_repository, run_status_holder, command_broadcaster, tasks, calls, others>>

\* the runtime takes the next command of its receiver
RuntimeRecv(i) ==
    LET rt == runtimes[i]
        tail == Len(command_broadcaster)
        cmd == command_broadcaster[rt.next + 1]
        read == [rt EXCEPT !.next = @ + 1]
        took == [read EXCEPT !.seen = Append(@, cmd)]
    IN /\ rt.alive
       /\ rt.next < tail
       /\ tail - rt.next <= BusCapacity
       /\ IF ~CommandIsFor(rt.id, cmd)
          THEN /\ runtimes' = [runtimes EXCEPT ![i] = read]
               /\ UNCHANGED <<run_status_holder, search_index>>
          ELSE CASE cmd.kind = "Stop" ->
                      /\ runtimes' = [runtimes EXCEPT ![i] = RuntimeEnd(took)]
                      /\ run_status_holder' = HolderAfterEnd(rt)
                      /\ UNCHANGED search_index
                 [] cmd.kind = "ReloadSearchIndex" ->
                      /\ runtimes' = [runtimes EXCEPT ![i] = took]
                      /\ search_index' = save_for_plugin(search_index, rt.id)
                      /\ UNCHANGED run_status_holder
                 [] OTHER ->
                      /\ runtimes' = [runtimes EXCEPT ![i] = took]
                      /\ UNCHANGED <<run_status_holder, search_index>>
       /\ UNCHANGED <<db_repository, command_broadcaster, tasks, calls, others>>

\* the event loop completes, or the script throws
RuntimeExit(i) ==
    LET rt == runtimes[i]
    IN /\ rt.alive
       /\ runtimes' = [runtimes EXCEPT ![i] = RuntimeEnd(rt)]
       /\ run_status_holder' = HolderAfterEnd(rt)
       /\ UNCHANGED <<db_repository, search_index, command_broadcaster, tasks, calls, others>>

\* ---------------------------------------------------------- specification
Next ==
    \/ \E t \in Tasks :
        \/ \E id \in PluginIds, enabled \in BOOLEAN : set_plugin_state_call(t, id, enabled)
        \/ set_plugin_state(t)
        \/ \E id \in PluginIds : reload_plugin_call(t, id)
        \/ reload_plugin(t)
        \/ \E id \in PluginIds : remove_plugin_call(t, id)
        \/ remove_plugin(t)
        \/ reload_all_plugins_call(t)
        \/ reload_all_plugins(t)
        \/ start_plugin(t)
        \/ stop_plugin(t)
        \/ index_remove_for_plugin(t)
        \/ \E text \in Texts : handle_inline_view(t, text)
        \/ \E id \in PluginIds, e \in EntrypointIds : handle_run_command(t, id, e)
        \/ \E id \in PluginIds, e \in EntrypointIds : handle_run_generated_command(t, id, e)
        \/ \E id \in PluginIds, e \in EntrypointIds : handle_render_view(t, id, e)
        \/ \E id \in PluginIds : handle_view_close(t, id)
        \/ \E id \in PluginIds : handle_view_event(t, id, "onClick")
        \/ \E id \in PluginIds, e \in EntrypointIds : handle_keyboard_event(t, id, e)
        \/ \E id \in PluginIds : request_search_index_reload(t, id)
        \/ mark_entrypoint_frecency(t)
    \/ \E i \in 1..Len(runtimes) :
        \/ RuntimeRecv(i)
        \/ RuntimeExit(i)

\* Spec sends fewer than BusCapacity commands, so no receiver lags in it;
\* SpecLag below is the specification in which one does
Spec == Init /\ [][Next]_vars

\* A slow subscriber: one running plugin, one call at a time (the plugin is
\* disabled while it is enabled, its view is closed at any time), and as
\* many commands as it takes to overrun the channel
InitLag ==
    /\ InitOthers
    /\ db_repository = [p \in PluginIds |-> [exists |-> TRUE, enabled |-> p = "p1"]]
    /\ run_status_holder = {"p1"}
    /\ search_index = {"p1"}
    /\ runtimes = <<start_plugin_runtime("p1", 0)>>
    /\ command_broadcaster = <<>>
    /\ tasks = [t \in Tasks |-> IdleTask]
    /\ calls = Unbounded

NextLag ==
    \/ /\ Len(command_broadcaster) < MaxLagSends
       /\ is_plugin_enabled(db_repository, "p1")
       /\ set_plugin_state_call(1, "p1", FALSE)
    \/ set_plugin_state(1)
    \/ stop_plugin(1)
    \/ index_remove_for_plugin(1)
    \/ /\ Len(command_broadcaster) < MaxLagSends
       /\ handle_view_close(1, "p1")
    \/ RuntimeLagged(1)
    \/ RuntimeRecv(1)

SpecLag == InitLag /\ [][NextLag]_vars

\* The settings operations beside the lifecycle operations that persist:
\* one plugin enabled and running, the other disabled
InitSettings ==
    /\ InitOthers
    /\ db_repository = [p \in PluginIds |-> [exists |-> TRUE, enabled |-> p = "p1"]]
    /\ run_status_holder = {"p1"}
    /\ search_index = {"p1"}
    /\ runtimes = <<start_plugin_runtime("p1", 0)>>
    /\ command_broadcaster = <<>>
    /\ tasks = [t \in Tasks |-> IdleTask]
    /\ calls = MaxCalls

NextSettings ==
    \/ \E t \in Tasks :
        \/ \E id \in PluginIds, e \in EntrypointIds, enabled \in BOOLEAN :
              set_entrypoint_state_call(t, id, e, enabled)
        \/ set_entrypoint_state(t)
        \/ \E id \in PluginIds, e \in EntrypointIds \cup {NoEntrypoint},
               name \in PreferenceNames, value \in PreferenceValues :
              set_preference_value_call(t, id, e, name, value)
        \/ set_preference_value(t)
        \/ \E id \in PluginIds, enabled \in BOOLEAN : set_plugin_state_call(t, id, enabled)
        \/ set_plugin_state(t)
        \/ \E id \in PluginIds : remove_plugin_call(t, id)
        \/ remove_plugin(t)
        \/ reload_all_plugins_call(t)
        \/ reload_all_plugins(t)
        \/ start_plugin(t)
        \/ stop_plugin(t)
        \/ index_remove_for_plugin(t)
    \/ \E i \in 1..Len(runtimes) : RuntimeRecv(i)

SpecSettings == InitSettings /\ [][NextSettings]_vars

\* The same call made twice, one after the other: any set_plugin_state call
\* may come first, then a call set_plugin_state(id, e) that returns Ok is
\* made again; the runtimes go on reading their commands all the while
Unread(rt) == SubSeq(command_broadcaster, rt.next + 1, Len(command_broadcaster))

\* the runtimes of id that are alive and have no Stop left to read
LiveRuntimes(id) ==
    {i \in 1..Len(runtimes) :
        /\ runtimes[i].alive
        /\ runtimes[i].id = id
        /\ \A k \in 1..Len(Unread(runtimes[i])) :
             Unread(runtimes[i])[k] # stop_plugin_command(id)}

\* the caller repeats the call that returned Ok in slot 1; once keeps what
\* that first call left: the flag, the runtimes of id that stay, the index
set_plugin_state_again(id, e) ==
    /\ once = <<>>
    /\ tasks[1].op = "set_plugin_state"
    /\ tasks[1].pc = "done" /\ tasks[1].result = "ok"
    /\ tasks[1].plugin_id = id /\ tasks[1].set_enabled = e
    /\ Free(2)
    /\ tasks' = [tasks EXCEPT ![2] =
          NewCall("set_plugin_state", id, "", e, "set_plugin_state.running")]
    /\ once' = <<[id |-> id, set_enabled |-> e,
                  enabled |-> is_plugin_enabled(db_repository, id),
                  live |-> Cardinality(LiveRuntimes(id)),
                  search_index |-> search_index]>>
    /\ UNCHANGED <<db_repository, run_status_holder, search_index,
                   command_broadcaster, runtimes, calls,
                   plugin_entrypoint, preferences_user_data, ui_ops, ui_handler, host>>

NextTwice ==
    \/ /\ once = <<>>
       /\ \E id \in PluginIds, enabled \in BOOLEAN : set_plugin_state_call(1, id, enabled)
    \/ \E id \in PluginIds, enabled \in BOOLEAN : set_plugin_state_again(id, enabled)
    \/ \E t \in Tasks :
        \/ set_plugin_state(t)
        \/ start_plugin(t)
        \/ stop_plugin(t)
        \/ index_remove_for_plugin(t)
    \/ \E i \in 1..Len(runtimes) : RuntimeRecv(i)

SpecTwice == Init /\ [][NextTwice]_vars

\* ---------------------------------------------------------------- UI bridge
\* UiRequestData, and the requests of DbusClient on context_tx
UiRequestData ==
    {"GetContainer", "CreateInstance", "CreateTextInstance", "AppendChild",
     "RemoveChild", "InsertBefore", "SetProperties", "SetText"}

DbusRequests ==
    {"get_container", "create_instance", "create_text_instance", "clone_instance"}

DbusSends == {"append_child", "replace_container_children"}

NativeUiResponseData ==
    {"GetContainer", "CreateInstance", "CreateTextInstance", "CloneInstance"}

\* a request: who made it and for which plugin, where it is (sent, received,
\* returned, aborted), its response slot (none, pending, fulfilled,
\* dropped), how the handler's wire call for it went, and the response put
\* into its slot
UiOp(side, plugin, kind, state, slot) ==
    [side |-> side, plugin |-> plugin, kind |-> kind, state |-> state, slot |-> slot,
     wire |-> "none", response |-> <<>>]

BridgeUnchanged ==
    UNCHANGED <<db_repository, run_status_holder, search_index, command_broadcaster,
                runtimes, tasks, calls, plugin_entrypoint, preferences_user_data, once,
                event_handlers, microtasks, properties, signals,
                shortcuts, module_loader, pool, permissions>>

\* RequestSender::send_receive: the request and its response slot enter the
\* channel; with the receiving end dropped the call fails at once
send_receive(side, plugin, kind) ==
    IF side = "host" /\ ui_handler[plugin].state = "dead"
    THEN Append(ui_ops, UiOp(side, plugin, kind, "aborted", "none"))
    ELSE Append(ui_ops, UiOp(side, plugin, kind, "sent", "pending"))

\* the host ops op_gtk_* of plugin's worker: make_request(..).await, except
\* op_gtk_insert_before, which drops the future of make_request without
\* awaiting it
op_gtk(plugin, kind) ==
    /\ Len(ui_ops) < MaxOps
    /\ ui_ops' = IF kind = "InsertBefore"
                 THEN Append(ui_ops, UiOp("host", plugin, kind, "returned", "none"))
                 ELSE send_receive("host", plugin, kind)
    /\ UNCHANGED <<ui_handler, ui_process>>
    /\ BridgeUnchanged

\* the match on the response in op_gtk_get_container, op_gtk_create_instance
\* and op_gtk_create_text_instance; the other ops ignore the response
op_gtk_accepts(kind, tag) ==
    CASE kind = "GetContainer" -> tag = "GetContainer"
      [] kind = "CreateInstance" -> tag = "CreateInstance"
      [] kind = "CreateTextInstance" -> tag = "CreateTextInstance"
      [] OTHER -> TRUE

\* one channel for the workers of all plugins
Channel_shared(side, plugin) ==
    {i \in 1..Len(ui_ops) : ui_ops[i].side = side /\ ui_ops[i].state = "sent"}

\* the requests waiting in a channel: run_react creates one channel for each
\* plugin's worker, DbusClient has the one context_tx
Channel(side, plugin) ==
    {i \in 1..Len(ui_ops) :
        /\ ui_ops[i].side = side
        /\ ui_ops[i].state = "sent"
        /\ side = "host" => ui_ops[i].plugin = plugin}

\* the newest request in a channel
Oldest_newest(side, plugin) ==
    CHOOSE i \in Channel(side, plugin) : \A j \in Channel(side, plugin) : i >= j

\* the oldest request in a channel
Oldest(side, plugin) ==
    CHOOSE i \in Channel(side, plugin) : \A j \in Channel(side, plugin) : i <= j

HasSent(side, plugin) == Channel(side, plugin) # {}

\* what the UI process is handed: the request and the plugin id it carries
Handed(side, plugin, request) ==
    [side |-> side, plugin |-> plugin, kind |-> ui_ops[request].kind, request |-> request]

\* while let Ok((request_data, responder)) = rx.recv().await
request_loop_recv(plugin_uuid) ==
    /\ ui_handler[plugin_uuid].state = "recv"
    /\ HasSent("host", plugin_uuid)
    /\ ui_ops' = [ui_ops EXCEPT ![Oldest("host", plugin_uuid)].state = "received"]
    /\ ui_handler' = [ui_handler EXCEPT ![plugin_uuid] =
          [state |-> "wire", request |-> Oldest("host", plugin_uuid)]]
    /\ UNCHANGED ui_process
    /\ BridgeUnchanged

\* the arm of the match after its client_proxy call returned Ok: the first
\* three arms call responder.respond, the others let the responder drop
request_loop_respond(request, index) ==
    IF request.kind \in {"GetContainer", "CreateInstance", "CreateTextInstance"}
    THEN [request EXCEPT !.wire = "ok", !.slot = "fulfilled",
                         !.response = <<[tag |-> request.kind, request |-> index]>>]
    ELSE [request EXCEPT !.wire = "ok", !.slot = "dropped"]

\* client_proxy.*(&plugin_uuid, ..).await returned Ok: the UI process was
\* handed the request under the plugin id of the loop
request_loop_wire_ok(plugin_uuid) ==
    LET index == ui_handler[plugin_uuid].request
    IN /\ ui_handler[plugin_uuid].state = "wire"
       /\ ui_process' = Append(ui_process, Handed("host", plugin_uuid, index))
       /\ ui_ops' = [ui_ops EXCEPT ![index] = request_loop_respond(@, index)]
       /\ ui_handler' = [ui_handler EXCEPT ![plugin_uuid] = [state |-> "recv", request |-> 0]]
       /\ BridgeUnchanged

\* the client_proxy call returned Err: unwrap panics, the loop's task ends
\* and drops the responder it holds, the receiver and what is queued in it
request_loop_wire_err(plugin_uuid) ==
    /\ ui_handler[plugin_uuid].state = "wire"
    /\ ui_ops' = [i \in 1..Len(ui_ops) |->
          CASE i = ui_handler[plugin_uuid].request ->
                  [ui_ops[i] EXCEPT !.wire = "err", !.slot = "dropped"]
            [] i \in Channel("host", plugin_uuid) ->
                  [ui_ops[i] EXCEPT !.slot = "dropped"]
            [] OTHER -> ui_ops[i]]
    /\ ui_handler' = [ui_handler EXCEPT ![plugin_uuid] = [state |-> "dead", request |-> 0]]
    /\ UNCHANGED ui_process
    /\ BridgeUnchanged

\* DbusClient: the methods that await a response on context_tx
DbusClient_send_receive(plugin_id, kind) ==
    /\ Len(ui_ops) < MaxOps
    /\ ui_ops' = send_receive("client", plugin_id, kind)
    /\ UNCHANGED <<ui_handler, ui_process>>
    /\ BridgeUnchanged

\* DbusClient::append_child and replace_container_children: context_tx.send
\* puts the request into the channel with no response slot and returns
DbusClient_send(plugin_id, kind) ==
    /\ Len(ui_ops) < MaxOps
    /\ ui_ops' = Append(ui_ops, UiOp("client", plugin_id, kind, "sent", "none"))
    /\ UNCHANGED <<ui_handler, ui_process>>
    /\ BridgeUnchanged

\* any response is taken for the one the method asked for
DbusClient_accepts_any(kind, tag) == TRUE

\* the match on the response in get_container, create_instance,
\* create_text_instance and clone_instance
DbusClient_accepts(kind, tag) ==
    CASE kind = "get_container" -> tag = "GetContainer"
      [] kind = "create_instance" -> tag = "CreateInstance"
      [] kind = "create_text_instance" -> tag = "CreateTextInstance"
      [] kind = "clone_instance" -> tag = "CloneInstance"

\* the pair (PluginId::from_string(plugin_id), data) the receiving end of
\* context_tx takes out of the channel
context_rx_recv(request) ==
    Append(ui_process, Handed("client", ui_ops[request].plugin, request))

\* the receiving end of context_tx takes the oldest request and, when it
\* came with a response slot, puts a response into the slot or drops it
context_rx_respond(tag) ==
    LET oldest == Oldest("client", "")
    IN /\ HasSent("client", "")
       /\ ui_ops[oldest].slot = "pending"
       /\ ui_process' = context_rx_recv(oldest)
       /\ ui_ops' = [ui_ops EXCEPT ![oldest] =
             [@ EXCEPT !.state = "received", !.slot = "fulfilled",
                       !.response = <<[tag |-> tag, request |-> oldest]>>]]
       /\ UNCHANGED ui_handler
       /\ BridgeUnchanged

context_rx_drop ==
    LET oldest == Oldest("client", "")
    IN /\ HasSent("client", "")
       /\ ui_ops[oldest].slot = "pending"
       /\ ui_process' = context_rx_recv(oldest)
       /\ ui_ops' = [ui_ops EXCEPT ![oldest] =
             [@ EXCEPT !.state = "received", !.slot = "dropped"]]
       /\ UNCHANGED ui_handler
       /\ BridgeUnchanged

context_rx_take ==
    LET oldest == Oldest("client", "")
    IN /\ HasSent("client", "")
       /\ ui_ops[oldest].slot = "none"
       /\ ui_process' = context_rx_recv(oldest)
       /\ ui_ops' = [ui_ops EXCEPT ![oldest].state = "received"]
       /\ UNCHANGED ui_handler
       /\ BridgeUnchanged

\* the await of send_receive ends: the response is matched, and a dropped
\* slot (make_request's unwrap) or another response's tag aborts the caller
send_receive_returns(i) ==
    LET request == ui_ops[i]
        accepted ==
            /\ request.slot = "fulfilled"
            /\ IF request.side = "host"
               THEN op_gtk_accepts(request.kind, request.response[1].tag)
               ELSE DbusClient_accepts(request.kind, request.response[1].tag)
    IN /\ request.state \in {"sent", "received"}
       /\ request.slot \in {"fulfilled", "dropped"}
       /\ ui_ops' = [ui_ops EXCEPT ![i].state = IF accepted THEN "returned" ELSE "aborted"]
       /\ UNCHANGED <<ui_handler, ui_process>>
       /\ BridgeUnchanged

InitBridge ==
    /\ InitOthers
    /\ db_repository = [p \in PluginIds |-> [exists |-> TRUE, enabled |-> FALSE]]
    /\ run_status_holder = {}
    /\ search_index = {}
    /\ runtimes = <<>>
    /\ command_broadcaster = <<>>
    /\ tasks = [t \in Tasks |-> IdleTask]
    /\ calls = MaxCalls

NextBridge ==
    \/ \E plugin \in PluginIds, kind \in UiRequestData : op_gtk(plugin, kind)
    \/ \E plugin \in PluginIds :
        \/ request_loop_recv(plugin)
        \/ request_loop_wire_ok(plugin)
        \/ request_loop_wire_err(plugin)
    \/ \E plugin \in PluginIds, kind \in DbusRequests : DbusClient_send_receive(plugin, kind)
    \/ \E plugin \in PluginIds, kind \in DbusSends : DbusClient_send(plugin, kind)
    \/ \E tag \in NativeUiResponseData : context_rx_respond(tag)
    \/ context_rx_drop
    \/ context_rx_take
    \/ \E i \in 1..Len(ui_ops) : send_receive_returns(i)

SpecBridge == InitBridge /\ [][NextBridge]_vars

\* ================================================================ plugin worker
\* op_gtk_set_properties, the wire container of the properties, the
\* EventHandlers table and op_call_event_listener of one plugin's worker

UiWidgetIds == {1, 2}

PropertyNames == {"children", "onClick", "label"}

\* the callables of the plugin's script
Callables == {"f1", "f2"}

\* the v8 values a property can have: functions, strings (one of them with a
\* lone surrogate), a number, a boolean, and an object as a value of another
\* type
JsValues ==
    {[type |-> "function", value |-> f] : f \in Callables}
    \cup {[type |-> "string", value |-> "a"],
          [type |-> "string", value |-> "b\\uD800"],
          [type |-> "number", value |-> "1.5"],
          [type |-> "boolean", value |-> "true"],
          [type |-> "object", value |-> "{}"]}

\* props: HashMap<String, serde_v8::Value>
JsProps == UNION {[names -> JsValues] : names \in SUBSET PropertyNames}

\* the props of the calls in SpecWorker: at most MaxProps entries each, with
\* a callable, a string or an object as values
WorkerProps ==
    {props \in JsProps :
        /\ Cardinality(DOMAIN props) <= MaxProps
        /\ \A name \in DOMAIN props : props[name].value \in {"f1", "f2", "a", "{}"}}

\* val.to_rust_string_lossy(scope): a lone surrogate becomes U+FFFD
to_rust_string_lossy(value) ==
    IF value = "b\\uD800" THEN "b\\uFFFD" ELSE value

\* .filter(|(name, _)| name.as_str() != "children")
set_properties_filter(props) == DOMAIN props \ {"children"}

\* the entries that reach the panic! of the map's last branch
set_properties_panics(props) ==
    {name \in set_properties_filter(props) :
        props[name].type \notin {"function", "string", "number", "boolean"}}

\* the entries that are v8 functions
set_properties_functions(props) ==
    {name \in set_properties_filter(props) : props[name].type = "function"}

\* a function entry is sent with its callable
UiPropertyValue_keeps_function(val) ==
    CASE val.type = "function" -> [tag |-> "String", value |-> val.value]
      [] val.type = "string" -> [tag |-> "String", value |-> to_rust_string_lossy(val.value)]
      [] val.type = "number" -> [tag |-> "Number", value |-> val.value]
      [] val.type = "boolean" -> [tag |-> "Bool", value |-> val.value]

\* the UiPropertyValue of a v8 value
UiPropertyValue(val) ==
    CASE val.type = "function" -> [tag |-> "Function"]
      [] val.type = "string" -> [tag |-> "String", value |-> to_rust_string_lossy(val.value)]
      [] val.type = "number" -> [tag |-> "Number", value |-> val.value]
      [] val.type = "boolean" -> [tag |-> "Bool", value |-> val.value]

\* the properties of UiRequestData::SetProperties
set_properties_map(props) ==
    [name \in set_properties_filter(props) |-> UiPropertyValue(props[name])]

\* the value of an entry of the container's map one
DBusUiPropertyOneValue(value) ==
    CASE value.tag = "String" -> [one |-> "String", value |-> value.value]
      [] value.tag = "Number" -> [one |-> "Number", value |-> value.value]
      [] value.tag = "Bool" -> [one |-> "Bool", value |-> value.value]

\* impl From<HashMap<String, UiPropertyValue>> for DBusUiPropertyContainer
DBusUiPropertyContainer_from(value) ==
    LET properties_one ==
            [key \in {k \in DOMAIN value : value[k].tag # "Function"} |->
                DBusUiPropertyOneValue(value[key])]
        properties_zero ==
            [key \in {k \in DOMAIN value : value[k].tag = "Function"} |->
                [zero |-> "Function"]]
    IN [one |-> properties_one, zero |-> properties_zero]

\* the map zero is left out of the decoded properties
UiProperties_from_one_only(value) ==
    [key \in DOMAIN value.one |->
        CASE value.one[key].one = "String" -> [tag |-> "String", value |-> value.one[key].value]
          [] value.one[key].one = "Number" -> [tag |-> "Number", value |-> value.one[key].value]
          [] value.one[key].one = "Bool" -> [tag |-> "Bool", value |-> value.one[key].value]]

\* impl From<DBusUiPropertyContainer> for HashMap<String, UiPropertyValue>:
\* the entries of zero, extended (and overridden) with the entries of one
UiProperties_from(value) ==
    LET properties_one ==
            [key \in DOMAIN value.one |->
                CASE value.one[key].one = "String" ->
                        [tag |-> "String", value |-> value.one[key].value]
                  [] value.one[key].one = "Number" ->
                        [tag |-> "Number", value |-> value.one[key].value]
                  [] value.one[key].one = "Bool" ->
                        [tag |-> "Bool", value |-> value.one[key].value]]
        properties_zero ==
            [key \in DOMAIN value.zero |-> [tag |-> "Function"]]
    IN [key \in DOMAIN properties_zero \cup DOMAIN properties_one |->
            IF key \in DOMAIN properties_one THEN properties_one[key]
            ELSE properties_zero[key]]

\* the listener is added to the widget's entry only while it has none
add_listener_keeps_first(listeners, widget, event_name, function) ==
    [key \in DOMAIN listeners \cup {<<widget, event_name>>} |->
        IF key \in DOMAIN listeners THEN listeners[key] ELSE function]

\* EventHandlers::add_listener: listeners.entry(widget).or_default()
\* .insert(event_name, function)
add_listener(listeners, widget, event_name, function) ==
    [key \in DOMAIN listeners \cup {<<widget, event_name>>} |->
        IF key = <<widget, event_name>> THEN function ELSE listeners[key]]

\* add_listener for each of the names of props
RECURSIVE add_listeners(_, _, _, _)
add_listeners(listeners, widget, names, props) ==
    IF names = {}
    THEN listeners
    ELSE LET name == CHOOSE n \in names : TRUE
         IN add_listeners(add_listener(listeners, widget, name, props[name].value),
                          widget, names \ {name}, props)

\* the worker's thread is gone after a panic in an op
Panicked == \E k \in 1..Len(properties) : properties[k].state = "panicked"

WorkerUnchanged ==
    UNCHANGED <<db_repository, run_status_holder, search_index, command_broadcaster,
                runtimes, tasks, calls, plugin_entrypoint, preferences_user_data, once,
                ui_ops, ui_handler, ui_process, signals,
                shortcuts, module_loader, pool, permissions>>

\* op_gtk_set_properties: the function entries are added to the event
\* handlers and the properties are sent as UiRequestData::SetProperties; an
\* entry of another type panics, after the listeners of the entries the
\* iteration of the HashMap met before it were added
op_gtk_set_properties(widget, props) ==
    /\ Len(properties) < MaxSetProperties
    /\ ~Panicked
    /\ IF set_properties_panics(props) = {}
       THEN /\ event_handlers' = add_listeners(event_handlers, widget,
                                               set_properties_functions(props), props)
            /\ properties' = Append(properties,
                  [widget |-> widget, props |-> props, state |-> "sent",
                   properties |-> set_properties_map(props),
                   container |-> <<>>, received |-> <<>>])
       ELSE /\ \E met \in SUBSET set_properties_functions(props) :
                  event_handlers' = add_listeners(event_handlers, widget, met, props)
            /\ properties' = Append(properties,
                  [widget |-> widget, props |-> props, state |-> "panicked",
                   properties |-> <<>>, container |-> <<>>, received |-> <<>>])
    /\ UNCHANGED microtasks
    /\ WorkerUnchanged

\* the oldest SetProperties request that is in the given state
OldestSetProperties(state) ==
    CHOOSE k \in 1..Len(properties) :
        /\ properties[k].state = state
        /\ \A l \in 1..(k - 1) : properties[l].state # state

\* the SetProperties arm of the request loop: client_proxy.set_properties(
\* &plugin_uuid, widget.into(), properties.into())
request_loop_set_properties ==
    /\ \E k \in 1..Len(properties) : properties[k].state = "sent"
    /\ LET request == properties[OldestSetProperties("sent")]
       IN properties' = [properties EXCEPT ![OldestSetProperties("sent")] =
             [request EXCEPT !.state = "forwarded",
                             !.container = <<DBusUiPropertyContainer_from(request.properties)>>]]
    /\ UNCHANGED <<event_handlers, microtasks>>
    /\ WorkerUnchanged

\* the receiver of the container converts it back into the properties
set_properties_received ==
    /\ \E k \in 1..Len(properties) : properties[k].state = "forwarded"
    /\ LET request == properties[OldestSetProperties("forwarded")]
       IN properties' = [properties EXCEPT ![OldestSetProperties("forwarded")] =
             [request EXCEPT !.state = "received",
                             !.received = <<UiProperties_from(request.container[1])>>]]
    /\ UNCHANGED <<event_handlers, microtasks>>
    /\ WorkerUnchanged

\* the listener's callable is enqueued for each of the two lookups
call_listener_handler_twice(listeners, widget, event_name, queue, call) ==
    IF <<widget, event_name>> \in DOMAIN listeners
    THEN queue \o << [call |-> call, function |-> listeners[<<widget, event_name>>]],
                     [call |-> call, function |-> listeners[<<widget, event_name>>]] >>
    ELSE queue

\* EventHandlers::call_listener_handler: if let Some(func) = option_func
\* { scope.enqueue_microtask(local_fn) }
call_listener_handler(listeners, widget, event_name, queue, call) ==
    IF <<widget, event_name>> \in DOMAIN listeners
    THEN Append(queue, [call |-> call, function |-> listeners[<<widget, event_name>>]])
    ELSE queue

\* op_call_event_listener
op_call_event_listener(widget, event_name) ==
    /\ Len(microtasks.calls) < MaxListenerCalls
    /\ ~Panicked
    /\ microtasks' = [microtasks EXCEPT
          !.calls = Append(@, [widget |-> widget, event_name |-> event_name]),
          !.queue = call_listener_handler(event_handlers, widget, event_name, @,
                                          Len(microtasks.calls) + 1)]
    /\ UNCHANGED <<event_handlers, properties>>
    /\ WorkerUnchanged

\* the engine runs the oldest microtask of the queue
run_microtask ==
    /\ microtasks.queue # <<>>
    /\ ~Panicked
    /\ microtasks' = [microtasks EXCEPT !.queue = Tail(@),
                                        !.ran = Append(@, microtasks.queue[1])]
    /\ UNCHANGED <<event_handlers, properties>>
    /\ WorkerUnchanged

\* one op_gtk_set_properties call with props of every kind, and the way of
\* its properties over the wire
NextProperties ==
    \/ \E widget \in UiWidgetIds, props \in JsProps :
          properties = <<>> /\ op_gtk_set_properties(widget, props)
    \/ request_loop_set_properties
    \/ set_properties_received

SpecProperties == InitBridge /\ [][NextProperties]_vars

\* the calls of op_gtk_set_properties and op_call_event_listener of a worker
NextWorker ==
    \/ \E widget \in UiWidgetIds, props \in WorkerProps : op_gtk_set_properties(widget, props)
    \/ \E widget \in UiWidgetIds, event_name \in PropertyNames :
          op_call_event_listener(widget, event_name)
    \/ run_microtask

SpecWorker == InitBridge /\ [][NextWorker]_vars

\* ================================================================ event stream
\* the view_created and view_event signal streams of each plugin's run_react,
\* their merge, and op_get_next_pending_ui_event; the UI process that emits
\* the signals and owns the widgets

ViewNames == {"v1"}

SignalStreams == {"view_event", "view_created"}

\* a signal of the UI process as every subscriber receives it; number is its
\* place among the signals emitted, view the number of the ViewCreated the
\* widget of a ViewEvent was created after
Signal(kind, plugin_uuid, view_name, widget_id, number, view) ==
    [signal |-> kind, plugin_uuid |-> plugin_uuid, view_name |-> view_name,
     widget_id |-> widget_id, number |-> number, view |-> view]

\* the last ViewCreated emitted for a plugin, 0 when there is none
CurrentView(plugin) ==
    LET created == {k \in 1..Len(signals.emitted) :
                        /\ signals.emitted[k].signal = "ViewCreated"
                        /\ signals.emitted[k].plugin_uuid = plugin}
    IN IF created = {} THEN 0 ELSE CHOOSE k \in created : \A l \in created : l <= k

\* a signal is put into the streams of every subscriber
Emit(signal) ==
    [signals EXCEPT
        !.emitted = Append(@, signal),
        !.streams = [p \in PluginIds |->
            IF signal.signal = "ViewCreated"
            THEN [@[p] EXCEPT !.view_created = Append(@, signal)]
            ELSE [@[p] EXCEPT !.view_event = Append(@, signal)]]]

EventsUnchanged ==
    UNCHANGED <<db_repository, run_status_holder, search_index, command_broadcaster,
                runtimes, tasks, calls, plugin_entrypoint, preferences_user_data, once,
                ui_ops, ui_handler, ui_process, event_handlers, microtasks, properties,
                shortcuts, module_loader, pool, permissions>>

\* the UI process opens a view of a plugin and emits ViewCreated; the widgets
\* of the plugin's previous view are gone
ui_view_created(plugin, view_name) ==
    /\ Len(signals.emitted) < MaxSignals
    /\ signals' = [Emit(Signal("ViewCreated", plugin, view_name, 0,
                               Len(signals.emitted) + 1, 0))
                     EXCEPT !.widgets = {w \in @ : w.plugin # plugin}]
    /\ EventsUnchanged

\* the UI process creates a widget in the plugin's view for a CreateInstance
\* request of the plugin, which its host op can issue at any time
ui_create_instance(plugin) ==
    /\ signals.created < MaxWidgets
    /\ CurrentView(plugin) # 0
    /\ signals' = [signals EXCEPT
          !.created = @ + 1,
          !.widgets = @ \cup {[plugin |-> plugin, widget_id |-> signals.created + 1,
                               view |-> CurrentView(plugin)]}]
    /\ EventsUnchanged

\* the UI process emits ViewEvent for a widget of the plugin's view
ui_view_event(widget) ==
    /\ Len(signals.emitted) < MaxSignals
    /\ widget \in signals.widgets
    /\ signals' = Emit(Signal("ViewEvent", widget.plugin, "", widget.widget_id,
                              Len(signals.emitted) + 1, widget.view))
    /\ EventsUnchanged

\* every signal passes the filter
signal_filter_passes_all(signal, plugin_uuid) == TRUE

\* if signal.plugin_uuid != plugin_uuid { None } else { Some(..) }
signal_filter(signal, plugin_uuid) == signal.plugin_uuid = plugin_uuid

\* Some(UiEvent::ViewCreated { view_name }) and Some(UiEvent::ViewEvent
\* { event_name, widget_id }); signal and view name the signal it came from
UiEvent(signal) ==
    IF signal.signal = "ViewCreated"
    THEN [event |-> "ViewCreated", view_name |-> signal.view_name, widget_id |-> 0,
          signal |-> signal.number, view |-> signal.view]
    ELSE [event |-> "ViewEvent", view_name |-> "", widget_id |-> signal.widget_id,
          signal |-> signal.number, view |-> signal.view]

\* the filter_map of a stream takes a signal of another plugin and yields
\* nothing for it
filter_map_none(plugin_uuid, stream) ==
    /\ signals.streams[plugin_uuid][stream] # <<>>
    /\ ~signal_filter(Head(signals.streams[plugin_uuid][stream]), plugin_uuid)
    /\ signals' = [signals EXCEPT !.streams[plugin_uuid][stream] = Tail(@)]
    /\ EventsUnchanged

\* op_get_next_pending_ui_event: event_stream.next().await yields the next
\* event of one of the two merged streams that has one ready; merge fixes no
\* order between the streams
op_get_next_pending_ui_event(plugin_uuid, stream) ==
    /\ signals.streams[plugin_uuid][stream] # <<>>
    /\ signal_filter(Head(signals.streams[plugin_uuid][stream]), plugin_uuid)
    /\ signals' = [signals EXCEPT
          !.streams[plugin_uuid][stream] = Tail(@),
          !.event_stream[plugin_uuid] =
              Append(@, UiEvent(Head(signals.streams[plugin_uuid][stream])))]
    /\ EventsUnchanged

NextEvents ==
    \/ \E plugin \in PluginIds, view_name \in ViewNames : ui_view_created(plugin, view_name)
    \/ \E plugin \in PluginIds : ui_create_instance(plugin)
    \/ \E widget \in signals.widgets : ui_view_event(widget)
    \/ \E plugin \in PluginIds, stream \in SignalStreams :
        \/ filter_map_none(plugin, stream)
        \/ op_get_next_pending_ui_event(plugin, stream)

SpecEvents == InitBridge /\ [][NextEvents]_vars

\* ================================================================ action shortcuts
\* the manager with no plugin enabled and no call made
InitManager ==
    /\ db_repository = [p \in PluginIds |-> [exists |-> TRUE, enabled |-> FALSE]]
    /\ run_status_holder = {}
    /\ search_index = {}
    /\ runtimes = <<>>
    /\ command_broadcaster = <<>>
    /\ tasks = [t \in Tasks |-> IdleTask]
    /\ calls = MaxCalls

ActionIds == {"a1", "a2"}
\* the ids user data can name: a declared one and one no action declares
ActionUserDataIds == {"a1", "a3"}
ShortcutKeys == {"k1", "k2"}
DbPluginActionShortcutKind == {"db_main", "db_alternative"}

\* the sequences over set of at most MaxActions entries
SeqUpTo(set) == UNION {[1..n -> set] : n \in 0..MaxActions}

DbPluginAction ==
    [id : ActionIds, key : ShortcutKeys, kind : DbPluginActionShortcutKind]
DbPluginActionUserData ==
    [id : ActionUserDataIds, key : ShortcutKeys, kind : DbPluginActionShortcutKind]

\* match kind { DbPluginActionShortcutKind::Main => ActionShortcutKind::Main, .. }
ActionShortcutKind(kind) ==
    CASE kind = "db_main" -> "Main"
      [] kind = "db_alternative" -> "Alternative"

\* Iterator::collect into a HashMap: of the pairs with one key the last stays
collect(pairs) ==
    [id \in {pairs[i][1] : i \in 1..Len(pairs)} |->
        pairs[CHOOSE i \in 1..Len(pairs) :
                /\ pairs[i][1] = id
                /\ \A j \in (i + 1)..Len(pairs) : pairs[j][1] # id][2]]

\* the shortcut is built from the declared action whether or not the user
\* has set another one
ActionShortcut_declared(action, user_data) ==
    [key |-> action.key, kind |-> ActionShortcutKind(action.kind)]

\* match actions_user_data.get(&id): None takes key and kind of the declared
\* action, Some((key, kind)) those of the user's entry
ActionShortcut(action, user_data) ==
    IF action.id \in DOMAIN user_data
    THEN [key |-> user_data[action.id][1],
          kind |-> ActionShortcutKind(user_data[action.id][2])]
    ELSE [key |-> action.key, kind |-> ActionShortcutKind(action.kind)]

\* the two collects of action_shortcuts
action_shortcuts_map(actions, actions_user_data) ==
    LET user_data == collect([i \in 1..Len(actions_user_data) |->
                                <<actions_user_data[i].id,
                                  <<actions_user_data[i].key, actions_user_data[i].kind>> >>])
    IN collect([i \in 1..Len(actions) |->
                    <<actions[i].id, ActionShortcut(actions[i], user_data)>>])

ShortcutsUnchanged ==
    UNCHANGED <<db_repository, run_status_holder, search_index, command_broadcaster,
                runtimes, tasks, calls, plugin_entrypoint, preferences_user_data, once,
                ui_ops, ui_handler, ui_process, event_handlers, microtasks, properties,
                signals, module_loader, pool, permissions>>

\* action_shortcuts: get_entrypoint_by_id returned the row
action_shortcuts ==
    /\ shortcuts.returned = "none"
    /\ shortcuts' = [shortcuts EXCEPT
            !.returned = "ok",
            !.result = action_shortcuts_map(shortcuts.actions, shortcuts.actions_user_data)]
    /\ ShortcutsUnchanged

\* action_shortcuts: get_entrypoint_by_id failed and the ? returns the error
action_shortcuts_err ==
    /\ shortcuts.returned = "none"
    /\ shortcuts' = [shortcuts EXCEPT !.returned = "err"]
    /\ ShortcutsUnchanged

\* the entrypoint's row holds any declared actions and any user data
InitActionShortcuts ==
    /\ InitTables
    /\ InitManager
    /\ \E actions \in SeqUpTo(DbPluginAction),
          actions_user_data \in SeqUpTo(DbPluginActionUserData) :
            shortcuts = [actions |-> actions, actions_user_data |-> actions_user_data,
                         returned |-> "none", result |-> <<>>]
    /\ InitModuleLoader
    /\ InitPool
    /\ InitPermissions

NextActionShortcuts ==
    \/ action_shortcuts
    \/ action_shortcuts_err

SpecActionShortcuts == InitActionShortcuts /\ [][NextActionShortcuts]_vars

\* ================================================================ module loader
\* A string is the sequence of its pieces: a piece is one of the literals
\* below or one character. "a" stands for the ASCII letters, the digits and
\* the underscore, "-" for the hyphen, "U+00E9" for the letters outside ASCII and
\* "/" for every other character.
Chars == {"a", "-", "U+00E9", "/"}
\* [a-zA-Z0-9_-]
EntrypointIdChars == {"a", "-"}
\* \w of the regex crate: Unicode letters, digits and the underscore
WordChars == {"a", "U+00E9"}

ModuleNames == UNION {[1..n -> Chars] : n \in 0..MaxName}

Str(prefix, name, suffix) ==
    (IF prefix = "" THEN <<>> ELSE <<prefix>>) \o name \o (IF suffix = "" THEN <<>> ELSE <<suffix>>)

\* what an import can name, and where it can stand
Specifiers ==
    {Str(prefix, name, suffix) :
        prefix \in {"./", "plugin:view?", "plugin:module?"}, name \in ModuleNames,
        suffix \in {"", ".js"}}
    \cup {<<"plugin:core">>, <<"plugin:renderer">>, <<"react">>, <<"react/jsx-runtime">>,
          <<"plugin:react">>, <<"gauntlet">>}
Referrers ==
    {Str(prefix, name, "") : prefix \in {"plugin:view?", "plugin:module?"}, name \in ModuleNames}
    \cup {<<"plugin:core">>, <<"plugin:renderer">>, <<"plugin:unused">>}

\* the names the plugin can have stored scripts under
ScriptNames == {<<"a">>, <<"a", "-">>, <<"U+00E9">>}
Scripts == {"s1", "s2"}
\* plugin.code().js(): the scripts of the plugin by name
PluginCode == UNION {[names -> Scripts] : names \in SUBSET ScriptNames}

\* MODULES, the map of the static loader
MODULES ==
    (<<"plugin:core">> :> "init.js") @@ (<<"plugin:renderer">> :> "renderer.js")
    @@ (<<"plugin:react">> :> "react.production.min.js")
    @@ (<<"plugin:react-jsx-runtime">> :> "react-jsx-runtime.production.min.js")

\* ^plugin:view\?(?<entrypoint_id>[a-zA-Z0-9_-]+)$
PLUGIN_VIEW_PATTERN(string) ==
    /\ Len(string) >= 2
    /\ string[1] = "plugin:view?"
    /\ \A i \in 2..Len(string) : string[i] \in EntrypointIdChars

\* ^plugin:module\?(?<entrypoint_id>[a-zA-Z0-9_-]+)$
PLUGIN_MODULE_PATTERN(string) ==
    /\ Len(string) >= 2
    /\ string[1] = "plugin:module?"
    /\ \A i \in 2..Len(string) : string[i] \in EntrypointIdChars

\* ^\./(?<js_module>\w+)\.js$
PATH_PATTERN(string) ==
    /\ Len(string) >= 3
    /\ string[1] = "./"
    /\ string[Len(string)] = ".js"
    /\ \A i \in 2..(Len(string) - 1) : string[i] \in WordChars

\* captures["js_module"]
js_module(string) == SubSeq(string, 2, Len(string) - 1)

\* str::parse::<Url>: a character outside ASCII is percent-encoded
Url_parse(string) ==
    [i \in 1..Len(string) |-> IF string[i] = "U+00E9" THEN "%C3%A9" ELSE string[i]]

ResolveOk(url) == [tag |-> "ok", url |-> url]
ResolveErr == [tag |-> "err", url |-> <<>>]

\* CustomModuleLoader::resolve
resolve(specifier, referrer) ==
    IF PLUGIN_VIEW_PATTERN(specifier)
    THEN ResolveOk(Url_parse(specifier))
    ELSE IF /\ PLUGIN_VIEW_PATTERN(referrer) \/ PLUGIN_MODULE_PATTERN(referrer)
            /\ PATH_PATTERN(specifier)
    THEN ResolveOk(Url_parse(<<"plugin:module?">> \o js_module(specifier)))
    ELSE CASE specifier = <<"plugin:core">> -> ResolveOk(<<"plugin:core">>)
           [] specifier = <<"plugin:renderer">> -> ResolveOk(<<"plugin:renderer">>)
           [] specifier = <<"react">> -> ResolveOk(<<"plugin:react">>)
           [] specifier = <<"react/jsx-runtime">> -> ResolveOk(<<"plugin:react-jsx-runtime">>)
           [] OTHER -> ResolveErr

\* CustomModuleLoader::load: a specifier that is plugin:view or plugin:module
\* without its query is looked up in the plugin's scripts by its query, and
\* the unwrap panics when no script has that name; every other specifier goes
\* to the static loader
load(js, module_specifier) ==
    IF module_specifier[1] \in {"plugin:view?", "plugin:module?"}
    THEN LET view_name == Tail(module_specifier)
         IN IF view_name \in DOMAIN js
            THEN [tag |-> "ok", source |-> js[view_name]]
            ELSE [tag |-> "panic", source |-> ""]
    ELSE IF module_specifier \in DOMAIN MODULES
    THEN [tag |-> "ok", source |-> MODULES[module_specifier]]
    ELSE [tag |-> "err", source |-> ""]

ModuleLoaderUnchanged ==
    UNCHANGED <<db_repository, run_status_holder, search_index, command_broadcaster,
                runtimes, tasks, calls, plugin_entrypoint, preferences_user_data, once,
                ui_ops, ui_handler, ui_process, event_handlers, microtasks, properties,
                signals, shortcuts, pool, permissions>>

\* the engine resolves the import
CustomModuleLoader_resolve ==
    /\ Len(module_loader.imports) = 1
    /\ module_loader.imports[1].resolved.tag = "none"
    /\ module_loader' = [module_loader EXCEPT !.imports[1].resolved =
            resolve(module_loader.imports[1].specifier, module_loader.imports[1].referrer)]
    /\ ModuleLoaderUnchanged

\* the engine loads the module the import resolved to
CustomModuleLoader_load ==
    /\ Len(module_loader.imports) = 1
    /\ module_loader.imports[1].resolved.tag = "ok"
    /\ module_loader.imports[1].loaded.tag = "none"
    /\ module_loader' = [module_loader EXCEPT !.imports[1].loaded =
            load(module_loader.js, module_loader.imports[1].resolved.url)]
    /\ ModuleLoaderUnchanged

\* a plugin with any scripts and one import of any specifier from any referrer
InitImport ==
    /\ InitTables
    /\ InitManager
    /\ InitShortcuts
    /\ \E js \in PluginCode, specifier \in Specifiers, referrer \in Referrers :
            module_loader = [js |-> js,
                             imports |-> <<[specifier |-> specifier, referrer |-> referrer,
                                            resolved |-> [tag |-> "none", url |-> <<>>],
                                            loaded |-> [tag |-> "none", source |-> ""]]>>]
    /\ InitPool
    /\ InitPermissions

NextModuleLoader ==
    \/ CustomModuleLoader_resolve
    \/ CustomModuleLoader_load

SpecModuleLoader == InitImport /\ [][NextModuleLoader]_vars

\* ================================================================ save_plugin
WriteEntrypointIds == {"e1", "e2", "e3"}

\* plugin.entrypoints: up to MaxEntrypoints entrypoints with different ids
WriteEntrypoints ==
    {list \in UNION {[1..n -> WriteEntrypointIds] : n \in 0..MaxEntrypoints} :
        \A i, j \in 1..Len(list) : i # j => list[i] # list[j]}

\* a save_plugin call with its transaction: the rows it has inserted and not
\* committed
Transaction(plugin_id, entrypoints, began) ==
    [plugin_id |-> plugin_id, entrypoints |-> entrypoints,
     pc |-> IF began THEN "insert_plugin" ELSE "done",
     next |-> 1, plugin |-> {}, plugin_entrypoint |-> {},
     result |-> IF began THEN "none" ELSE "err", failed_at |-> IF began THEN "" ELSE "begin"]

\* the ? of a failed step returns, the transaction is dropped and rolls back
Rollback(tx, step) ==
    [tx EXCEPT !.pc = "done", !.plugin = {}, !.plugin_entrypoint = {},
               !.result = "err", !.failed_at = step]

\* SQLite has one writer at a time: a transaction that has written holds the
\* write lock until it commits or rolls back
HoldsWriteLock(tx) == tx.pc \in {"insert_entrypoint", "commit"}
WriteLockFree(k) ==
    \A other \in 1..Len(pool.tx) : other # k => ~HoldsWriteLock(pool.tx[other])

\* .execute(&self.pool): the row is inserted and committed at once
execute_on_pool(state, k, table, row) ==
    [state EXCEPT ![table] = @ \cup {row}]

\* .execute(&mut *tx): the row is inserted in the transaction
execute(state, k, table, row) ==
    [state EXCEPT !.tx[k][table] = @ \cup {row}]

\* what a statement of transaction k sees: the committed rows and its own
Sees(k, table) == pool[table] \cup pool.tx[k][table]

PoolUnchanged ==
    UNCHANGED <<db_repository, run_status_holder, search_index, command_broadcaster,
                runtimes, tasks, calls, plugin_entrypoint, preferences_user_data, once,
                ui_ops, ui_handler, ui_process, event_handlers, microtasks, properties,
                signals, shortcuts, module_loader, permissions>>

\* let mut tx = self.pool.begin().await?
save_plugin_begin(plugin_id, entrypoints, ok) ==
    /\ Len(pool.tx) < MaxSaves
    /\ pool' = [pool EXCEPT !.tx = Append(@, Transaction(plugin_id, entrypoints, ok))]
    /\ PoolUnchanged

\* INSERT INTO plugin: fails when a row with the id exists, or for any other
\* reason
save_plugin_insert_plugin(k, ok) ==
    LET tx == pool.tx[k]
        inserted == execute(pool, k, "plugin", tx.plugin_id)
    IN /\ tx.pc = "insert_plugin"
       /\ WriteLockFree(k)
       /\ pool' = IF ok /\ tx.plugin_id \notin Sees(k, "plugin")
                  THEN [inserted EXCEPT !.tx[k].pc =
                            IF tx.entrypoints = <<>> THEN "commit" ELSE "insert_entrypoint"]
                  ELSE [pool EXCEPT !.tx[k] = Rollback(tx, "insert_plugin")]
       /\ PoolUnchanged

\* for entrypoint in plugin.entrypoints { INSERT INTO plugin_entrypoint }
save_plugin_insert_entrypoint(k, ok) ==
    LET tx == pool.tx[k]
        row == <<tx.plugin_id, tx.entrypoints[tx.next]>>
        inserted == execute(pool, k, "plugin_entrypoint", row)
    IN /\ tx.pc = "insert_entrypoint"
       /\ pool' = IF ok /\ row \notin Sees(k, "plugin_entrypoint")
                  THEN [inserted EXCEPT !.tx[k].next = tx.next + 1,
                                        !.tx[k].pc = IF tx.next = Len(tx.entrypoints)
                                                     THEN "commit" ELSE "insert_entrypoint"]
                  ELSE [pool EXCEPT !.tx[k] = Rollback(tx, "insert_entrypoint")]
       /\ PoolUnchanged

\* tx.commit().await?; Ok(())
save_plugin_commit(k, ok) ==
    LET tx == pool.tx[k]
    IN /\ tx.pc = "commit"
       /\ pool' = IF ok
                  THEN [pool EXCEPT !.plugin = @ \cup tx.plugin,
                                    !.plugin_entrypoint = @ \cup tx.plugin_entrypoint,
                                    !.tx[k] = [tx EXCEPT !.pc = "done", !.result = "ok",
                                                         !.plugin = {}, !.plugin_entrypoint = {}]]
                  ELSE [pool EXCEPT !.tx[k] = Rollback(tx, "commit")]
       /\ PoolUnchanged

\* list_plugins_and_entrypoints is called
list_plugins_and_entrypoints_call ==
    /\ Len(pool.readers) < MaxReaders
    /\ pool' = [pool EXCEPT !.readers =
            Append(@, [pc |-> "list_plugins", plugins |-> {}, result |-> <<>>, returned |-> "none"])]
    /\ PoolUnchanged

\* let plugins = self.list_plugins().await?
list_plugins_and_entrypoints_list(r) ==
    /\ pool.readers[r].pc = "list_plugins"
    /\ pool' = [pool EXCEPT !.readers[r].plugins = pool.plugin,
                            !.readers[r].pc = "entrypoints"]
    /\ PoolUnchanged

\* get_entrypoints_by_plugin_id(&plugin.id) for the next plugin of the list
get_entrypoints_by_plugin_id(r, plugin_id) ==
    LET reader == pool.readers[r]
    IN /\ reader.pc = "entrypoints"
       /\ plugin_id \in reader.plugins
       /\ pool' = [pool EXCEPT
              !.readers[r].plugins = @ \ {plugin_id},
              !.readers[r].result = Append(@,
                    [plugin |-> plugin_id,
                     entrypoints |-> {row[2] : row \in {e \in pool.plugin_entrypoint : e[1] = plugin_id}}])]
       /\ PoolUnchanged

\* Ok(result)
list_plugins_and_entrypoints_return(r) ==
    /\ pool.readers[r].pc = "entrypoints"
    /\ pool.readers[r].plugins = {}
    /\ pool' = [pool EXCEPT !.readers[r].pc = "done", !.readers[r].returned = "ok"]
    /\ PoolUnchanged

\* one of the queries failed and the ? returns the error
list_plugins_and_entrypoints_err(r) ==
    /\ pool.readers[r].pc \in {"list_plugins", "entrypoints"}
    /\ pool.readers[r].pc = "entrypoints" => pool.readers[r].plugins # {}
    /\ pool' = [pool EXCEPT !.readers[r].pc = "done", !.readers[r].returned = "err",
                            !.readers[r].result = <<>>]
    /\ PoolUnchanged

NextSavePlugin ==
    \/ \E plugin_id \in PluginIds, entrypoints \in WriteEntrypoints, ok \in BOOLEAN :
            save_plugin_begin(plugin_id, entrypoints, ok)
    \/ \E k \in 1..Len(pool.tx), ok \in BOOLEAN :
        \/ save_plugin_insert_plugin(k, ok)
        \/ save_plugin_insert_entrypoint(k, ok)
        \/ save_plugin_commit(k, ok)
    \/ list_plugins_and_entrypoints_call
    \/ \E r \in 1..Len(pool.readers) :
        \/ list_plugins_and_entrypoints_list(r)
        \/ \E plugin_id \in PluginIds : get_entrypoints_by_plugin_id(r, plugin_id)
        \/ list_plugins_and_entrypoints_return(r)
        \/ list_plugins_and_entrypoints_err(r)

SpecSavePlugin == InitBridge /\ [][NextSavePlugin]_vars

\* ================================================================ permissions
\* the fields of DbPluginPermissions; all but high_resolution_time are lists
PermissionKinds ==
    {"environment", "network", "ffi", "fs_read_access", "fs_write_access",
     "run_subprocess", "system"}

\* a resource a host operation can touch: <<kind, name>>; of each kind the
\* plugin row can grant "r1", and "r2" is granted to no plugin
Grantable == (PermissionKinds \X {"r1"}) \cup {<<"high_resolution_time", "now">>}
Resources == (PermissionKinds \X {"r1", "r2"}) \cup {<<"high_resolution_time", "now">>}

\* PluginPermissions { environment: plugin.permissions.environment, .. }: the
\* capability set of the plugin row, field by field
PluginPermissions(row) ==
    {resource \in Resources :
        \E kind \in PermissionKinds \cup {"high_resolution_time"} :
            resource[1] = kind /\ resource \in row}

\* PermissionsContainer::allow_all()
PermissionsContainer_allow_all(data) ==
    [built |-> TRUE, allow_all |-> TRUE, granted |-> {}]

\* the container is asked for a resource before a host operation proceeds
PermissionsContainer_check(container, resource) ==
    IF container.allow_all \/ resource \in container.granted THEN "allowed" ELSE "denied"

PermissionsUnchanged ==
    UNCHANGED <<db_repository, run_status_holder, search_index, command_broadcaster,
                runtimes, tasks, calls, plugin_entrypoint, preferences_user_data, once,
                ui_ops, ui_handler, ui_process, event_handlers, microtasks, properties,
                signals, shortcuts, module_loader, pool>>

\* start_plugin builds the runtime data of the plugin with its permissions
start_plugin_data ==
    /\ ~permissions.data.built
    /\ permissions' = [permissions EXCEPT
            !.data = [built |-> TRUE, permissions |-> PluginPermissions(permissions.plugin)]]
    /\ PermissionsUnchanged

\* run_react: MainWorker::bootstrap_from_options with the permissions container
bootstrap_from_options ==
    /\ permissions.data.built
    /\ ~permissions.container.built
    /\ permissions' = [permissions EXCEPT
            !.container = PermissionsContainer_allow_all(permissions.data.permissions)]
    /\ PermissionsUnchanged

\* a host operation of the plugin's script touches a resource
host_operation(resource) ==
    /\ permissions.container.built
    /\ Len(permissions.accesses) < MaxAccesses
    /\ permissions' = [permissions EXCEPT !.accesses = Append(@,
            [resource |-> resource,
             outcome |-> PermissionsContainer_check(permissions.container, resource)])]
    /\ PermissionsUnchanged

\* the plugin's row grants any set of capabilities
InitGranted ==
    /\ InitTables
    /\ InitManager
    /\ InitShortcuts
    /\ InitModuleLoader
    /\ InitPool
    /\ \E granted \in SUBSET Grantable :
            permissions = [plugin |-> granted, data |-> [built |-> FALSE, permissions |-> {}],
                           container |-> [built |-> FALSE, allow_all |-> FALSE, granted |-> {}],
                           accesses |-> <<>>]

NextPermissions ==
    \/ start_plugin_data
    \/ bootstrap_from_options
    \/ \E resource \in Resources : host_operation(resource)

SpecPermissions == InitGranted /\ [][NextPermissions]_vars

\* ================================================================ properties
\* the commands a runtime's receiver has passed: sent after it subscribed
Window(rt) == SubSeq(command_broadcaster, rt.start + 1, rt.next)

IsPrefix(s, w) == Len(s) <= Len(w) /\ s = SubSeq(w, 1, Len(s))

\* the step is one of call t, and it changes the call's record
StepOf(t) == InFlight(t) /\ tasks'[t] # tasks[t]

\* call t returns (or aborts) in this step
Returns(t) == tasks[t].pc # "done" /\ tasks'[t].pc = "done"

\* C1: when set_plugin_state(id, false) returns Ok, is_plugin_running(id) is
\* false, and no runtime takes a command addressed to id that was sent after
\* the return
C1_DisabledPluginIsStopped ==
    [][\A t \in Tasks :
         LET call == tasks'[t]
         IN (call.op = "set_plugin_state" /\ ~call.set_enabled
               /\ call.pc = "done" /\ call.result = "ok"
               /\ call.currently_running /\ call.currently_enabled)
            => /\ Returns(t) => ~is_plugin_running(run_status_holder', call.plugin_id)
               /\ \A i \in 1..Len(runtimes') :
                    \A k \in (runtimes'[i].start + 1)..runtimes'[i].next :
                        (k > call.returned_at /\ command_broadcaster'[k].to = call.plugin_id)
                        => ~CommandIsFor(runtimes'[i].id, command_broadcaster'[k])
    ]_vars

\* C2: a plugin runtime of id is alive if and only if id is in the
\* run-status holder
C2_RuntimeAliveIffRunning ==
    \A id \in PluginIds :
        (\E i \in AliveRuntimes : runtimes[i].id = id)
        <=> is_plugin_running(run_status_holder, id)

\* C3: set_plugin_state(P, false) and handle_render_view(P, E) overlap on a
\* plugin that is enabled and running; once both are over and P's runtimes
\* have read every command, both returned Ok, exactly one Stop was sent to P,
\* no runtime of P is alive and the search index has no entry of P
C3_DisableRacesRenderView ==
    \A t, u \in Tasks :
        LET disable == tasks[t]
            render == tasks[u]
            P == disable.plugin_id
        IN (/\ t # u
            /\ disable.op = "set_plugin_state" /\ ~disable.set_enabled
            /\ disable.currently_running /\ disable.currently_enabled
            /\ render.op = "handle_render_view" /\ render.plugin_id = P
            /\ disable.pc = "done" /\ render.pc = "done"
            /\ disable.result # "err"
            /\ \A i \in 1..Len(runtimes) :    \* no runtime of P ended of itself
                   (runtimes[i].id = P /\ ~runtimes[i].alive)
                   => (runtimes[i].seen # <<>>
                       /\ runtimes[i].seen[Len(runtimes[i].seen)].kind = "Stop")
            /\ \A i \in AliveRuntimes :
                   runtimes[i].id = P => runtimes[i].next = Len(command_broadcaster))
           => /\ disable.result = "ok" /\ render.result = "ok"
              /\ Cardinality({k \in 1..Len(command_broadcaster) :
                      command_broadcaster[k] = PluginCommandOne(P, "Stop", "")}) = 1
              /\ \A i \in AliveRuntimes : runtimes[i].id # P
              /\ P \notin search_index

\* C4: set_plugin_state(id, true) on a plugin read as not running writes the
\* enabled flag only when it was read false, and then writes true for id
\* alone; it starts exactly one runtime of id, with id marked running, as its
\* last step; on Ok it has done exactly that: the flag (when it was false),
\* then the start, and the flag is true when no other call ran beside it
C4_EnableStartsOneRuntime ==
    [][\A t \in Tasks :
         LET call == tasks[t]
             after == tasks'[t]
             id == call.plugin_id
             n == Len(runtimes)
             started == [ev |-> "start", to |-> id, kind |-> "", arg |-> ""]
             persisted == [ev |-> "set_plugin_enabled", to |-> id, kind |-> "true", arg |-> ""]
         IN (StepOf(t) /\ call.op = "set_plugin_state" /\ call.set_enabled)
            => /\ db_repository' # db_repository
                    => /\ ~call.currently_running /\ ~call.currently_enabled
                       /\ db_repository'[id].enabled
                       /\ \A p \in PluginIds \ {id} : db_repository'[p] = db_repository[p]
               /\ runtimes' # runtimes
                    => /\ Len(runtimes') = n + 1
                       /\ SubSeq(runtimes', 1, n) = runtimes
                       /\ runtimes'[n + 1].id = id /\ runtimes'[n + 1].alive
                       /\ is_plugin_running(run_status_holder', id)
                       /\ after.pc = "done" /\ after.result = "ok"
               /\ (after.pc = "done" /\ after.result = "ok" /\ ~after.currently_running)
                    => /\ runtimes' # runtimes
                       /\ (\A u \in Tasks \ {t} : tasks[u].pc = "idle")
                            => is_plugin_enabled(db_repository', id)
                       /\ after.trace = IF after.currently_enabled
                                        THEN <<started>>
                                        ELSE <<persisted, started>>
    ]_vars

\* a call enabled a disabled plugin: flag written, runtime started
C4_Witness ==
    \E t \in Tasks :
        /\ tasks[t].op = "set_plugin_state" /\ tasks[t].set_enabled
        /\ tasks[t].pc = "done" /\ tasks[t].result = "ok"
        /\ ~tasks[t].currently_running /\ ~tasks[t].currently_enabled
        /\ Len(tasks[t].trace) = 2
        /\ \E i \in AliveRuntimes : runtimes[i].id = tasks[t].plugin_id

\* what the disabling call does, in order
C5_Order(id) ==
    << [ev |-> "set_plugin_enabled", to |-> id, kind |-> "false", arg |-> ""],
       [ev |-> "send", to |-> id, kind |-> "Stop", arg |-> ""],
       [ev |-> "remove_for_plugin", to |-> id, kind |-> "", arg |-> ""] >>

\* C5: set_plugin_state(id, false) on a plugin read as enabled and running
\* persists enabled = false, then sends Stop to id, then removes id's entries
\* from the search index, each step changing nothing else; on Ok all three
\* are done, and when persisting fails nothing is sent or removed
C5_DisableOrder ==
    [][\A t \in Tasks :
         LET call == tasks[t]
             after == tasks'[t]
             id == call.plugin_id
             done == Len(call.trace)
         IN (StepOf(t) /\ call.op = "set_plugin_state" /\ ~call.set_enabled
               /\ call.pc \notin {"set_plugin_state.running", "set_plugin_state.enabled"})
            => /\ call.currently_running /\ call.currently_enabled
               /\ IsPrefix(after.trace, C5_Order(id))
               /\ Len(after.trace) = done + 1 \/ (after.trace = call.trace /\ after.pc = "done")
               /\ after.trace = call.trace
                    => /\ after.result # "ok"
                       /\ UNCHANGED <<db_repository, command_broadcaster, search_index>>
               /\ (Len(after.trace) = done + 1 /\ done = 0)
                    => /\ ~db_repository'[id].enabled
                       /\ \A p \in PluginIds \ {id} : db_repository'[p] = db_repository[p]
                       /\ UNCHANGED <<command_broadcaster, search_index>>
               /\ (Len(after.trace) = done + 1 /\ done = 1)
                    => /\ command_broadcaster' =
                            Append(command_broadcaster, [to |-> id, kind |-> "Stop", arg |-> ""])
                       /\ UNCHANGED <<db_repository, search_index>>
               /\ (Len(after.trace) = done + 1 /\ done = 2)
                    => /\ search_index' = search_index \ {id}
                       /\ UNCHANGED <<db_repository, command_broadcaster>>
               /\ (after.pc = "done" /\ after.result = "ok") => after.trace = C5_Order(id)
               /\ UNCHANGED <<run_status_holder, runtimes>>
    ]_vars

\* a disabling call returned Ok after its three steps
C5_Witness ==
    \E t \in Tasks :
        /\ tasks[t].op = "set_plugin_state" /\ ~tasks[t].set_enabled
        /\ tasks[t].pc = "done" /\ tasks[t].result = "ok"
        /\ tasks[t].trace = C5_Order(tasks[t].plugin_id)
        /\ ~is_plugin_enabled(db_repository, tasks[t].plugin_id)

\* the combinations other than not-running/disabled/enable,
\* not-running/enabled/enable and running/enabled/disable
C6_OtherCombination(running, enabled, set_enabled) ==
    ~ \/ ~running /\ ~enabled /\ set_enabled
      \/ ~running /\ enabled /\ set_enabled
      \/ running /\ enabled /\ ~set_enabled

\* C6: for every other combination of (running, enabled, requested),
\* set_plugin_state changes nothing (repository, run status, channel, search
\* index, runtimes) and returns Ok
C6_OtherCombinationsChangeNothing ==
    [][\A t \in Tasks :
         LET call == tasks[t]
             after == tasks'[t]
             enabled == db_repository[call.plugin_id].enabled
         IN (StepOf(t) /\ call.op = "set_plugin_state"
               /\ call.pc \in {"set_plugin_state.running", "set_plugin_state.enabled"})
            => /\ UNCHANGED <<db_repository, run_status_holder, search_index,
                              command_broadcaster, runtimes>>
               /\ call.trace = <<>> /\ after.trace = <<>>
               /\ (/\ call.pc = "set_plugin_state.enabled"
                   /\ ~(after.pc = "done" /\ after.result = "err")
                   /\ C6_OtherCombination(call.currently_running, enabled, call.set_enabled))
                    => after.pc = "done" /\ after.result = "ok"
               /\ (after.pc = "done" /\ after.result = "ok")
                    => C6_OtherCombination(call.currently_running, enabled, call.set_enabled)
    ]_vars

\* a call found the plugin running but disabled, and returned Ok with
\* nothing done
C6_Witness ==
    \E t \in Tasks :
        /\ tasks[t].op = "set_plugin_state"
        /\ tasks[t].pc = "done" /\ tasks[t].result = "ok"
        /\ tasks[t].currently_running /\ ~tasks[t].currently_enabled
        /\ tasks[t].trace = <<>>

\* C7: when a plugin runtime ends, by a Stop or of itself, its id is no
\* longer in the run-status holder
C7_EndedRuntimeIsNotRunning ==
    [][\A i \in 1..Len(runtimes) :
         (runtimes[i].alive /\ ~runtimes'[i].alive)
         => ~is_plugin_running(run_status_holder', runtimes[i].id)
    ]_vars

\* a runtime ended on a Stop and its plugin is not running
C7_Witness ==
    \E i \in 1..Len(runtimes) :
        /\ ~runtimes[i].alive
        /\ runtimes[i].seen # <<>>
        /\ runtimes[i].seen[Len(runtimes[i].seen)].kind = "Stop"
        /\ ~is_plugin_running(run_status_holder, runtimes[i].id)

\* a Stop addressed to the runtime
IsStopFor(rt, cmd) == cmd.kind = "Stop" /\ cmd.to = rt.id

IsAll(cmd) == cmd.to = "All"

\* a call begins in slot t in this step
Begins(t) ==
    /\ Free(t)
    /\ \A u \in Tasks : u < t => InFlight(u)
    /\ calls' # calls

\* C9: every call of handle_inline_view(text) sends exactly one
\* All { OpenInlineView { text } }, and a runtime that has not lagged has
\* observed exactly once, in order, every All command sent since it
\* subscribed that its receiver has passed
C9_InlineViewReachesSubscribers ==
    [][/\ \A t \in Tasks :
            (Begins(t) /\ tasks'[t].op = "handle_inline_view")
            => command_broadcaster' =
                 Append(command_broadcaster,
                        [to |-> "All", kind |-> "OpenInlineView", arg |-> tasks'[t].arg])
       /\ \A i \in 1..Len(runtimes') :
            LET rt == runtimes'[i]
            IN rt.skipped = <<>>
               => SelectSeq(rt.seen, IsAll) =
                  SelectSeq(SubSeq(command_broadcaster', rt.start + 1, rt.next), IsAll)
    ]_vars

\* the command data each operation sends to one plugin
C10_Data ==
    [handle_run_command |-> "RunCommand",
     handle_run_generated_command |-> "RunGeneratedCommand",
     handle_render_view |-> "RenderView",
     handle_view_close |-> "CloseView",
     handle_view_event |-> "HandleViewEvent",
     handle_keyboard_event |-> "HandleKeyboardEvent",
     request_search_index_reload |-> "ReloadSearchIndex"]

\* C10: an operation on plugin id sends One { id, data } with its own data
\* (and ReloadSearchIndex or Stop go to the call's plugin); a runtime that
\* has not lagged has processed, of the commands its receiver has passed,
\* exactly the All commands and the ones addressed to its own plugin id
C10_OneIsProcessedByItsPlugin ==
    [][/\ \A t \in Tasks :
            LET after == tasks'[t]
            IN /\ (Free(t) /\ after # tasks[t] /\ after.op \in DOMAIN C10_Data
                     /\ after.result # "panic")
                  => command_broadcaster' =
                       Append(command_broadcaster,
                              [to |-> after.plugin_id, kind |-> C10_Data[after.op],
                               arg |-> after.arg])
               /\ (StepOf(t) /\ command_broadcaster' # command_broadcaster)
                  => \E kind \in {"Stop", "ReloadSearchIndex"} :
                       command_broadcaster' =
                         Append(command_broadcaster,
                                [to |-> tasks[t].plugin_id, kind |-> kind, arg |-> ""])
       /\ \A i \in 1..Len(runtimes') :
            LET rt == runtimes'[i]
                mine(cmd) == cmd.to = "All" \/ cmd.to = rt.id
            IN rt.skipped = <<>>
               => rt.seen = SelectSeq(SubSeq(command_broadcaster', rt.start + 1, rt.next), mine)
    ]_vars

\* a runtime passed a command addressed to another plugin, which that
\* plugin's runtime processed, and processed one addressed to itself
C10_Witness ==
    \E i, j \in 1..Len(runtimes) :
        /\ runtimes[i].id # runtimes[j].id
        /\ \E k \in (runtimes[i].start + 1)..runtimes[i].next :
             /\ command_broadcaster[k].to = runtimes[j].id
             /\ \E n \in 1..Len(runtimes[j].seen) : runtimes[j].seen[n] = command_broadcaster[k]
             /\ \A n \in 1..Len(runtimes[i].seen) : runtimes[i].seen[n] # command_broadcaster[k]
        /\ \E n \in 1..Len(runtimes[i].seen) : runtimes[i].seen[n].to = runtimes[i].id

\* the operations that mark frecency, and the command each sends first
C11_Data ==
    [handle_run_command |-> "RunCommand",
     handle_run_generated_command |-> "RunGeneratedCommand",
     handle_render_view |-> "RenderView"]

\* the number of commands among the first k sent that runtime rt processes
\* when it reads them all
C11_Position(rt, k) ==
    Len(SelectSeq(SubSeq(command_broadcaster, rt.start + 1, k),
                  LAMBDA cmd : cmd.to = "All" \/ cmd.to = rt.id))

\* for every such call that returned Ok, a runtime of the plugin that was
\* subscribed before the command was sent and has read up to the call's
\* ReloadSearchIndex processed the command first and the reload after it
C11_Observed ==
    \A t \in Tasks :
        LET call == tasks[t]
            q == call.returned_at
            cmd == [to |-> call.plugin_id, kind |-> C11_Data[call.op], arg |-> call.arg]
            reload == [to |-> call.plugin_id, kind |-> "ReloadSearchIndex", arg |-> ""]
        IN (call.op \in DOMAIN C11_Data /\ call.pc = "done" /\ call.result = "ok")
           => /\ command_broadcaster[q] = reload
              /\ \E p \in 1..(q - 1) :
                   /\ command_broadcaster[p] = cmd
                   /\ \A i \in 1..Len(runtimes) :
                        LET rt == runtimes[i]
                        IN (rt.id = call.plugin_id /\ rt.start < p /\ rt.next >= q
                              /\ rt.skipped = <<>>)
                           => /\ C11_Position(rt, p) < C11_Position(rt, q)
                              /\ rt.seen[C11_Position(rt, p)] = cmd
                              /\ rt.seen[C11_Position(rt, q)] = reload

\* C11: handle_run_command, handle_run_generated_command and
\* handle_render_view send the addressed command first, then mark frecency
\* for (plugin, entrypoint), then send One { plugin, ReloadSearchIndex }, and
\* on Ok have done all three; the plugin's runtime processes the addressed
\* command before the ReloadSearchIndex
C11_CommandThenFrecencyThenReload ==
    [][/\ \A t \in Tasks :
            LET call == tasks[t]
                after == tasks'[t]
                n == Len(after.trace)
                cmd == [to |-> after.plugin_id, kind |-> C11_Data[after.op], arg |-> after.arg]
                reload == [to |-> after.plugin_id, kind |-> "ReloadSearchIndex", arg |-> ""]
            IN (after # call /\ after.op \in DOMAIN C11_Data)
               => /\ n <= 3
                  /\ n >= 1 => after.trace[1] = [ev |-> "send", to |-> cmd.to,
                                                 kind |-> cmd.kind, arg |-> cmd.arg]
                  /\ n >= 2 => /\ after.trace[2].ev = "mark_entrypoint_frecency"
                               /\ after.trace[2].to = after.plugin_id
                               /\ after.trace[2].arg = after.arg
                  /\ n = 3 => after.trace[3] = [ev |-> "send", to |-> reload.to,
                                                kind |-> reload.kind, arg |-> ""]
                  /\ (after.pc = "done" /\ after.result = "ok") => n = 3
                  /\ command_broadcaster' # command_broadcaster
                       => \/ n = 1 /\ command_broadcaster' = Append(command_broadcaster, cmd)
                          \/ n = 3 /\ command_broadcaster' = Append(command_broadcaster, reload)
                  /\ (n = 1 \/ (n = 3 /\ Len(call.trace) = 2))
                       => command_broadcaster' # command_broadcaster
       /\ C11_Observed'
    ]_vars

\* a render call returned Ok and the plugin's runtime has processed its
\* RenderView and then its ReloadSearchIndex
C11_Witness ==
    \E t \in Tasks, i \in 1..Len(runtimes) :
        /\ tasks[t].op = "handle_render_view"
        /\ tasks[t].pc = "done" /\ tasks[t].result = "ok"
        /\ Len(tasks[t].trace) = 3
        /\ runtimes[i].id = tasks[t].plugin_id
        /\ runtimes[i].start = 0
        /\ runtimes[i].next >= tasks[t].returned_at
        /\ Len(runtimes[i].seen) >= 2

C13_PersistThenReload ==
    [][\A t \in Tasks :
         LET call == tasks[t]
             after == tasks'[t]
             n == Len(after.trace)
             reload == [to |-> after.plugin_id, kind |-> "ReloadSearchIndex", arg |-> ""]
         IN (after # call /\ after.op = "set_entrypoint_state")
            => /\ n <= 2
               /\ n >= 1 => after.trace[1] =
                     [ev |-> "set_plugin_entrypoint_enabled", to |-> after.plugin_id,
                      kind |-> IF after.set_enabled THEN "true" ELSE "false",
                      arg |-> after.arg]
               /\ n = 2 => after.trace[2] = [ev |-> "send", to |-> reload.to,
                                             kind |-> reload.kind, arg |-> ""]
               /\ (n = 1 /\ call.trace = <<>>)
                    => /\ plugin_entrypoint' =
                            [plugin_entrypoint EXCEPT ![<<after.plugin_id, after.arg>>] =
                                                         after.set_enabled]
                       /\ UNCHANGED command_broadcaster
               /\ command_broadcaster' # command_broadcaster
                    => /\ Len(call.trace) = 1 /\ n = 2
                       /\ command_broadcaster' = Append(command_broadcaster, reload)
                       /\ UNCHANGED plugin_entrypoint
               /\ plugin_entrypoint' # plugin_entrypoint => (n = 1 /\ call.trace = <<>>)
               /\ after.result = "err"
                    => /\ after.trace = <<>>
                       /\ UNCHANGED <<plugin_entrypoint, command_broadcaster>>
               /\ after.result = "ok" => n = 2
    ]_vars

\* one call persisted the flag false, sent the reload and returned Ok;
\* another failed to persist and returned the error with nothing sent
C13_Witness ==
    \E t, u \in Tasks :
        /\ tasks[t].op = "set_entrypoint_state" /\ tasks[t].result = "ok"
        /\ ~tasks[t].set_enabled
        /\ ~plugin_entrypoint[<<tasks[t].plugin_id, tasks[t].arg>>]
        /\ tasks[u].op = "set_entrypoint_state" /\ tasks[u].result = "err"
        /\ Len(command_broadcaster) = 1

\* C14: a step of set_preference_value changes at most the named preference
\* of the addressed record, to the given value: every other preference of
\* that record and every other record stay as they were, no command is
\* sent, and no runtime starts or stops
C14_OnlyTheNamedPreferenceChanges ==
    [][\A t \in Tasks :
         LET call == tasks[t]
             after == tasks'[t]
             record == PreferenceRecord(after.plugin_id, after.arg)
         IN (after # call /\ after.op = "set_preference_value")
            => /\ \A r \in PreferenceRecords, n \in PreferenceNames :
                    (r # record \/ n # after.preference_name)
                    => preferences_user_data'[r][n] = preferences_user_data[r][n]
               /\ preferences_user_data'[record][after.preference_name]
                    \in {preferences_user_data[record][after.preference_name],
                         after.preference_value}
               /\ after.result = "ok"
                    => preferences_user_data'[record][after.preference_name]
                         = after.preference_value
               /\ UNCHANGED <<command_broadcaster, runtimes, run_status_holder,
                              plugin_entrypoint>>
    ]_vars

\* C15: reload_all_plugins reloads the configuration first; then, for each
\* persisted plugin in turn, it starts the plugin when it is enabled and not
\* running, sends Stop and removes its index entries when it is running and
\* not enabled, and does nothing otherwise; when reloading the
\* configuration fails it returns the error with no plugin started or stopped
C15_ReloadAllPlugins ==
    [][\A t \in Tasks :
         LET call == tasks[t]
             after == tasks'[t]
             n == Len(after.trace)
             unchanged == UNCHANGED <<db_repository, run_status_holder, search_index,
                                      command_broadcaster, runtimes>>
         IN (after # call /\ after.op = "reload_all_plugins")
            => /\ n >= 1 => after.trace[1] = [ev |-> "reload_config", to |-> "",
                                              kind |-> "", arg |-> ""]
               /\ n = 0 => unchanged
               /\ (call.pc = "reload_all_plugins.config" /\ after.result = "err")
                    => after.pc = "done" /\ after.trace = <<>>
               /\ (call.pc = "reload_all_plugins.list" /\ after.result # "err")
                    => /\ {after.plugins[i].id : i \in 1..Len(after.plugins)}
                            = {id \in PluginIds : db_repository[id].exists}
                       /\ \A i \in 1..Len(after.plugins) :
                            after.plugins[i].enabled = db_repository[after.plugins[i].id].enabled
                       /\ \A i, j \in 1..Len(after.plugins) :
                            i # j => after.plugins[i].id # after.plugins[j].id
               /\ (call.pc = "reload_all_plugins.loop" /\ call.plugins # <<>>)
                    => LET plugin == Head(call.plugins)
                           running == plugin.id \in run_status_holder
                       IN /\ after.plugins = Tail(call.plugins)
                          /\ after.plugin_id = plugin.id
                          /\ after.pc = "start_plugin.load" <=> (plugin.enabled /\ ~running)
                          /\ after.pc = "stop_plugin" <=> (running /\ ~plugin.enabled)
                          /\ after.pc = "reload_all_plugins.loop"
                               <=> (running <=> plugin.enabled)
                          /\ unchanged
               /\ (call.pc = "reload_all_plugins.loop" /\ call.plugins = <<>>)
                    => after.pc = "done" /\ after.result = "ok" /\ unchanged
               /\ call.pc = "start_plugin.spawn"
                    => /\ runtimes' = Append(runtimes, runtimes'[Len(runtimes')])
                       /\ runtimes'[Len(runtimes')].id = call.plugin_id
                       /\ runtimes'[Len(runtimes')].alive
                       /\ call.plugin_id \in run_status_holder'
                       /\ after.pc = "reload_all_plugins.loop"
               /\ runtimes' # runtimes => call.pc = "start_plugin.spawn"
               /\ (call.pc = "stop_plugin" /\ after.result # "panic")
                    => /\ command_broadcaster' = Append(command_broadcaster,
                              [to |-> call.plugin_id, kind |-> "Stop", arg |-> ""])
                       /\ after.pc = "remove_for_plugin"
               /\ command_broadcaster' # command_broadcaster => call.pc = "stop_plugin"
               /\ (call.pc = "remove_for_plugin" /\ after.result # "err")
                    => /\ call.plugin_id \notin search_index'
                       /\ after.pc = "reload_all_plugins.loop"
               /\ search_index' # search_index => call.pc = "remove_for_plugin"
               /\ call.pc \in {"start_plugin.load", "start_plugin.subscribe",
                                "start_plugin.spawn"}
                    => ~call.currently_running /\ call.currently_enabled
               /\ call.pc \in {"stop_plugin", "remove_for_plugin"}
                    => call.currently_running /\ ~call.currently_enabled
    ]_vars

\* a reload returned Ok after starting one plugin and stopping another
C15_Witness ==
    \E t \in Tasks, p, q \in PluginIds :
        /\ tasks[t].op = "reload_all_plugins"
        /\ tasks[t].pc = "done" /\ tasks[t].result = "ok"
        /\ \E i \in 1..Len(tasks[t].trace) :
             tasks[t].trace[i] = [ev |-> "start", to |-> p, kind |-> "", arg |-> ""]
        /\ \E i \in 1..Len(tasks[t].trace) :
             tasks[t].trace[i] = [ev |-> "send", to |-> q, kind |-> "Stop", arg |-> ""]
        /\ \E i \in 1..Len(tasks[t].trace) :
             tasks[t].trace[i] = [ev |-> "remove_for_plugin", to |-> q, kind |-> "", arg |-> ""]

\* C16: remove_plugin sends One { id, Stop }, then deletes the plugin's
\* record, then removes its index entries; when it returns Ok the record
\* does not exist and the index holds no entry of id
C16_StopThenDeleteThenDeindex ==
    [][\A t \in Tasks :
         LET call == tasks[t]
             after == tasks'[t]
             id == after.plugin_id
             n == Len(after.trace)
         IN (after # call /\ after.op = "remove_plugin")
            => /\ n <= 3
               /\ n >= 1 => after.trace[1] = [ev |-> "send", to |-> id,
                                              kind |-> "Stop", arg |-> ""]
               /\ n >= 2 => after.trace[2] = [ev |-> "remove_plugin", to |-> id,
                                              kind |-> "", arg |-> ""]
               /\ n = 3 => after.trace[3] = [ev |-> "remove_for_plugin", to |-> id,
                                             kind |-> "", arg |-> ""]
               /\ (n = 1 /\ call.trace = <<>>)
                    => /\ command_broadcaster' = Append(command_broadcaster,
                              [to |-> id, kind |-> "Stop", arg |-> ""])
                       /\ UNCHANGED <<db_repository, search_index>>
               /\ (n = 2 /\ Len(call.trace) = 1)
                    => /\ ~db_repository'[id].exists
                       /\ \A p \in PluginIds \ {id} : db_repository'[p] = db_repository[p]
                       /\ UNCHANGED <<command_broadcaster, search_index>>
               /\ (n = 3 /\ Len(call.trace) = 2)
                    => /\ search_index' = search_index \ {id}
                       /\ UNCHANGED <<command_broadcaster, db_repository>>
               /\ Len(call.trace) = n
                    => UNCHANGED <<command_broadcaster, db_repository, search_index>>
               /\ after.result = "ok"
                    => /\ n = 3
                       /\ ~db_repository'[id].exists
                       /\ id \notin search_index'
    ]_vars

\* a running, indexed plugin was removed: the Stop is on the channel, the
\* record is gone and so are the index entries
C16_Witness ==
    \E t \in Tasks :
        /\ tasks[t].op = "remove_plugin"
        /\ tasks[t].pc = "done" /\ tasks[t].result = "ok"
        /\ Len(tasks[t].trace) = 3
        /\ tasks[t].returned_at >= 1
        /\ command_broadcaster[1] = [to |-> tasks[t].plugin_id, kind |-> "Stop", arg |-> ""]
        /\ runtimes # <<>> /\ runtimes[1].id = tasks[t].plugin_id
        /\ ~db_repository[tasks[t].plugin_id].exists
        /\ tasks[t].plugin_id \notin search_index

\* the operations of C17 and their steps that await the repository
C17_Operations ==
    {"set_plugin_state", "set_entrypoint_state", "set_preference_value",
     "reload_all_plugins", "remove_plugin"}

C17_PersistenceSteps ==
    {"set_plugin_state.enabled", "set_plugin_state.persist", "start_plugin.load",
     "set_entrypoint_state.persist", "set_preference_value.get",
     "set_preference_value.update", "remove_plugin.delete",
     "reload_all_plugins.config", "reload_all_plugins.list"}

\* C17: a persistence error in set_plugin_state, set_entrypoint_state,
\* set_preference_value, reload_all_plugins or remove_plugin is returned to
\* the caller by the step that met it, and that step changes nothing: what
\* earlier steps persisted or sent stays (enabled = true stays persisted
\* when the following start fails), and the failing start adds no runtime
\* and no run-status entry; a persistence step that does not fail goes on
C17_PersistenceErrorIsReturned ==
    [][\A t \in Tasks :
         LET call == tasks[t]
             after == tasks'[t]
         IN (StepOf(t) /\ call.op \in C17_Operations)
            => /\ after.result = "err"
                    => /\ after.pc = "done"
                       /\ after.trace = call.trace
                       /\ UNCHANGED <<db_repository, plugin_entrypoint,
                                      preferences_user_data, run_status_holder,
                                      search_index, command_broadcaster, runtimes>>
                       /\ (call.op = "set_plugin_state" /\ call.pc = "start_plugin.load"
                             /\ call.trace # <<>> /\ db_repository[call.plugin_id].exists)
                            => db_repository'[call.plugin_id].enabled
               /\ (call.pc \in C17_PersistenceSteps /\ after.result # "err")
                    => /\ after.result \in {"none", "ok"}
                       /\ after.pc # call.pc
               /\ call.pc \in {"start_plugin.load", "start_plugin.subscribe"}
                    => UNCHANGED <<run_status_holder, runtimes>>
    ]_vars

\* set_plugin_state(p2, true) persisted the flag, its start failed and the
\* error was returned: the flag is still true and p2 has no runtime
C17_Witness ==
    \E t \in Tasks :
        /\ tasks[t].op = "set_plugin_state" /\ tasks[t].plugin_id = "p2"
        /\ tasks[t].result = "err"
        /\ tasks[t].trace = <<[ev |-> "set_plugin_enabled", to |-> "p2",
                               kind |-> "true", arg |-> ""]>>
        /\ db_repository["p2"].enabled
        /\ "p2" \notin run_status_holder
        /\ \A i \in 1..Len(runtimes) : runtimes[i].id # "p2"

\* C18: set_plugin_state(id, e) called a second time after it returned Ok
\* leaves the persisted enabled flag of id, the number of runtimes of id
\* that stay alive and the search index as the first call left them
C18_SetPluginStateIsIdempotent ==
    (/\ once # <<>>
     /\ tasks[2].pc = "done" /\ tasks[2].result = "ok")
    => /\ is_plugin_enabled(db_repository, once[1].id) = once[1].enabled
       /\ Cardinality(LiveRuntimes(once[1].id)) = once[1].live
       /\ search_index = once[1].search_index

\* C19: every request the request loop of the UI bridge received, and whose
\* wire call succeeded, has its response slot fulfilled: for every request
\* kind, AppendChild, RemoveChild, InsertBefore, SetProperties and SetText
\* included, no slot is dropped unfulfilled
C19_EverySlotIsFulfilled ==
    \A i \in 1..Len(ui_ops) :
        (ui_ops[i].side = "host" /\ ui_ops[i].wire = "ok")
        => ui_ops[i].slot = "fulfilled"

\* the reply tag each awaiting request expects
C20_ReplyTag ==
    [GetContainer |-> "GetContainer", CreateInstance |-> "CreateInstance",
     CreateTextInstance |-> "CreateTextInstance",
     get_container |-> "GetContainer", create_instance |-> "CreateInstance",
     create_text_instance |-> "CreateTextInstance", clone_instance |-> "CloneInstance"]

\* C20: a send_receive that returns to its caller returns the response that
\* was produced for that very request, and its tag is the reply tag of the
\* request (GetContainer, CreateInstance, CreateTextInstance, CloneInstance);
\* with any other tag, or with no response, the call aborts
C20_ResponseMatchesRequest ==
    \A i \in 1..Len(ui_ops) :
        LET request == ui_ops[i]
        IN /\ request.response # <<>> => request.response[1].request = i
           /\ (request.state = "returned" /\ request.slot # "none")
                => /\ request.slot = "fulfilled"
                   /\ request.kind \in DOMAIN C20_ReplyTag
                   /\ request.response[1].tag = C20_ReplyTag[request.kind]
           /\ (request.state \in {"returned", "aborted"}
                 /\ request.kind \in DOMAIN C20_ReplyTag
                 /\ request.response # <<>>
                 /\ request.response[1].tag # C20_ReplyTag[request.kind])
                => request.state = "aborted"

\* one request returned with the response of its kind, made after another
\* that was answered with a response of another kind and aborted
C20_Witness ==
    \E i, j \in 1..Len(ui_ops) :
        /\ i < j
        /\ ui_ops[i].state = "aborted"
        /\ ui_ops[i].response # <<>>
        /\ ui_ops[i].response[1].tag # C20_ReplyTag[ui_ops[i].kind]
        /\ ui_ops[j].state = "returned"
        /\ ui_ops[j].response # <<>>
        /\ ui_ops[j].response[1].tag = C20_ReplyTag[ui_ops[j].kind]

\* the requests of a plugin's host ops that entered the plugin's channel, in
\* the order the ops made them
C21_Issued(plugin) ==
    SelectSeq([i \in 1..Len(ui_ops) |-> i],
              LAMBDA i : /\ ui_ops[i].side = "host"
                         /\ ui_ops[i].plugin = plugin
                         /\ ui_ops[i].slot # "none")

\* the requests the UI process was handed under a plugin's id by the request
\* loops, in the order it was handed them
C21_Observed(plugin) ==
    LET handed == SelectSeq(ui_process,
                            LAMBDA h : h.side = "host" /\ h.plugin = plugin)
    IN [k \in 1..Len(handed) |-> handed[k].request]

\* C21: within one plugin the UI process observes the UI requests in exactly
\* the order the host ops issued them: what it has been handed is at every
\* moment the first part of the list of requests the plugin's host ops put on
\* the channel, in that order, with none left out, repeated or moved, and
\* it is the whole list once the loop is waiting on an empty channel
C21_RequestsObservedInIssueOrder ==
    \A plugin \in PluginIds :
        /\ IsPrefix(C21_Observed(plugin), C21_Issued(plugin))
        /\ (ui_handler[plugin].state = "recv" /\ ~HasSent("host", plugin))
             => C21_Observed(plugin) = C21_Issued(plugin)

\* the UI process was handed get_container's and then append_child's request
\* of p1, issued in that order while the first was still in the channel
C21_Witness ==
    /\ Len(C21_Observed("p1")) = 2
    /\ ui_ops[C21_Observed("p1")[1]].kind = "GetContainer"
    /\ ui_ops[C21_Observed("p1")[2]].kind = "AppendChild"

\* C22: every call of the insert_before host op has put exactly one
\* InsertBefore request on the plugin's channel (from where the loop forwards
\* it to the UI process), without waiting for a reply
C22_InsertBeforeIsSent ==
    \A i \in 1..Len(ui_ops) :
        (ui_ops[i].side = "host" /\ ui_ops[i].kind = "InsertBefore")
            => ui_ops[i].slot # "none"

\* C30: every UI request the UI process or the UI context is handed carries
\* the id of the plugin whose runtime issued it, and none is handed over
\* under another plugin's id
C30_RequestsKeepTheirPluginId ==
    \A k \in 1..Len(ui_process) :
        LET handed == ui_process[k]
        IN /\ handed.request \in 1..Len(ui_ops)
           /\ ui_ops[handed.request].side = handed.side
           /\ ui_ops[handed.request].kind = handed.kind
           /\ ui_ops[handed.request].plugin = handed.plugin
           /\ \A l \in 1..Len(ui_process) :
                 ui_process[l].request = handed.request => l = k

\* a request of p2's runtime, issued after one of p1's, was forwarded first
\* and under p2's id, and p1's after it under p1's id
C30_Witness ==
    /\ Len(ui_process) = 2
    /\ ui_process[1].side = "host" /\ ui_process[1].plugin = "p2"
    /\ ui_process[1].request = 2
    /\ ui_process[2].side = "host" /\ ui_process[2].plugin = "p1"
    /\ ui_process[2].request = 1

\* the UI context took a request of DbusClient paired with p2's id
C30_WitnessContext ==
    \E k \in 1..Len(ui_process) :
        /\ ui_process[k].side = "client"
        /\ ui_process[k].plugin = "p2"
        /\ ui_ops[ui_process[k].request].plugin = "p2"

\* C23: in the container of every forwarded SetProperties request a function
\* property is never in the value-carrying map (one) and no callable is among
\* its values; the function's name is in the reference-carrying map (zero);
\* every other property is only in the value-carrying map; the key sets of
\* the two maps are disjoint and their union is the set of names sent
C23_FunctionsOnlyByReference ==
    \A k \in 1..Len(properties) :
        properties[k].container # <<>> =>
            LET props == properties[k].props
                sent == properties[k].properties
                container == properties[k].container[1]
            IN /\ \A name \in DOMAIN props \ {"children"} :
                     IF props[name].type = "function"
                     THEN /\ name \in DOMAIN container.zero
                          /\ name \notin DOMAIN container.one
                     ELSE /\ name \in DOMAIN container.one
                          /\ name \notin DOMAIN container.zero
               /\ \A name \in DOMAIN container.one :
                     container.one[name].value \notin Callables
               /\ DOMAIN container.one \cap DOMAIN container.zero = {}
               /\ DOMAIN container.one \cup DOMAIN container.zero = DOMAIN sent
               /\ DOMAIN sent = DOMAIN props \ {"children"}

\* a request with a function property, a string property and children was
\* forwarded
C23_Witness ==
    \E k \in 1..Len(properties) :
        /\ properties[k].container # <<>>
        /\ DOMAIN properties[k].props = {"children", "onClick", "label"}
        /\ properties[k].props["onClick"].type = "function"
        /\ properties[k].props["label"].type = "string"
        /\ DOMAIN properties[k].container[1].zero = {"onClick"}
        /\ DOMAIN properties[k].container[1].one = {"label"}

\* C24: the properties decoded from the wire container are the properties
\* that were encoded into it: the same keys, each string, number and bool
\* with the value it had, and the same keys marked as functions
C24_EncodeDecodeRoundTrip ==
    \A k \in 1..Len(properties) :
        properties[k].received # <<>> =>
            LET original == properties[k].properties
                decoded == properties[k].received[1]
            IN /\ DOMAIN decoded = DOMAIN original
               /\ \A key \in DOMAIN original :
                     /\ decoded[key].tag = original[key].tag
                     /\ original[key].tag # "Function"
                          => decoded[key].value = original[key].value
               /\ {key \in DOMAIN decoded : decoded[key].tag = "Function"}
                    = {key \in DOMAIN original : original[key].tag = "Function"}
               /\ decoded = original

\* properties with a function and a number went through the container
C24_Witness ==
    \E k \in 1..Len(properties) :
        /\ properties[k].received # <<>>
        /\ DOMAIN properties[k].properties = {"onClick", "label"}
        /\ properties[k].properties["onClick"].tag = "Function"
        /\ properties[k].properties["label"].tag = "Number"
        /\ properties[k].received[1]["label"].value = "1.5"
        /\ properties[k].container[1].one["label"].one = "Number"

\* the calls of op_gtk_set_properties that gave the widget's property of this
\* name a value, and those that gave it a callable
C25_Set(widget, name) ==
    {k \in 1..Len(properties) :
        /\ properties[k].widget = widget
        /\ name # "children"
        /\ name \in DOMAIN properties[k].props}

C25_Assigned(widget, name) ==
    {k \in C25_Set(widget, name) : properties[k].props[name].type = "function"}

C25_Last(set) == CHOOSE k \in set : \A l \in set : l <= k

\* C25: after any sequence of op_gtk_set_properties calls the event handler
\* table has exactly one entry for each (widget, name) that was assigned a
\* callable, holding the callable assigned last, and no other entry; so no
\* call changes the binding of another widget or of a name it does not assign
C25_TableHoldsLastCallable ==
    ~Panicked =>
        /\ DOMAIN event_handlers \subseteq UiWidgetIds \X PropertyNames
        /\ \A widget \in UiWidgetIds, name \in PropertyNames :
              IF C25_Assigned(widget, name) = {}
              THEN <<widget, name>> \notin DOMAIN event_handlers
              ELSE /\ <<widget, name>> \in DOMAIN event_handlers
                   /\ event_handlers[<<widget, name>>] =
                        properties[C25_Last(C25_Assigned(widget, name))].props[name].value

\* widget 1 got onClick = f1 and label = f2, then onClick = f2: the table holds
\* f2 for both, and nothing for widget 2
C25_Witness ==
    /\ Len(properties) = 2
    /\ ~Panicked
    /\ C25_Assigned(1, "onClick") = {1, 2}
    /\ C25_Assigned(1, "label") = {1}
    /\ properties[1].props["onClick"].value = "f1"
    /\ DOMAIN event_handlers = {<<1, "onClick">>, <<1, "label">>}
    /\ event_handlers[<<1, "onClick">>] = "f2"
    /\ event_handlers[<<1, "label">>] = "f2"

\* C26: when a property that had a callable is set again, the previous
\* binding is gone: the table has an entry for (widget, name) only when the
\* last value set for it is a callable, so after a non-callable value was set
\* call_event_listener finds nothing to invoke
C26_OverwriteRemovesBinding ==
    ~Panicked =>
        \A key \in DOMAIN event_handlers :
            /\ C25_Set(key[1], key[2]) # {}
            /\ properties[C25_Last(C25_Set(key[1], key[2]))].props[key[2]].type = "function"

\* C27: each call of call_event_listener enqueues the callable stored for
\* (widget, name) exactly once, or nothing when none is stored, and leaves the
\* table as it is; nothing else enqueues a microtask, and a microtask runs
\* once and leaves the queue
C27_CallEnqueuesOnce ==
    [][LET queue == microtasks.queue
           ran == microtasks.ran
       IN IF microtasks'.calls # microtasks.calls
          THEN LET number == Len(microtasks.calls) + 1
                   call == microtasks'.calls[number]
                   key == <<call.widget, call.event_name>>
               IN /\ microtasks'.calls = Append(microtasks.calls, call)
                  /\ event_handlers' = event_handlers
                  /\ microtasks'.ran = ran
                  /\ microtasks'.queue =
                        IF key \in DOMAIN event_handlers
                        THEN Append(queue, [call |-> number, function |-> event_handlers[key]])
                        ELSE queue
          ELSE \/ microtasks' = microtasks
               \/ /\ queue # <<>>
                  /\ microtasks'.queue = Tail(queue)
                  /\ microtasks'.ran = Append(ran, Head(queue))
                  /\ event_handlers' = event_handlers]_vars

\* the listener f1 of (1, onClick) was called and has run, once
C27_Witness ==
    /\ microtasks.calls = << [widget |-> 1, event_name |-> "onClick"] >>
    /\ microtasks.queue = <<>>
    /\ microtasks.ran = << [call |-> 1, function |-> "f1"] >>

\* a call for a name with no listener enqueued nothing
C27_WitnessNone ==
    /\ microtasks.calls = << [widget |-> 2, event_name |-> "label"] >>
    /\ <<1, "label">> \in DOMAIN event_handlers
    /\ <<2, "label">> \notin DOMAIN event_handlers
    /\ microtasks.queue = <<>>
    /\ microtasks.ran = <<>>

\* the signals of a stream that carry the plugin's id, by their numbers
C28_Tagged(stream, plugin) ==
    LET tagged == SelectSeq(stream, LAMBDA s : s.plugin_uuid = plugin)
    IN [k \in 1..Len(tagged) |-> tagged[k].number]

\* the events of a kind the plugin's event stream has yielded, by the numbers
\* of their signals
C28_Yielded(kind, plugin) ==
    LET yielded == SelectSeq(signals.event_stream[plugin], LAMBDA e : e.event = kind)
    IN [k \in 1..Len(yielded) |-> yielded[k].signal]

\* C28: every event the event stream of a plugin yields comes from a signal
\* that carries this plugin's id, and is the ViewCreated or ViewEvent of that
\* signal; no signal with another plugin's id is delivered to it; and no
\* signal with its id is dropped: those emitted are those yielded followed by
\* those still waiting in its stream, in the order emitted
C28_EventsFilteredByPlugin ==
    \A plugin \in PluginIds :
        /\ \A k \in 1..Len(signals.event_stream[plugin]) :
              LET event == signals.event_stream[plugin][k]
                  signal == signals.emitted[event.signal]
              IN /\ signal.plugin_uuid = plugin
                 /\ event = UiEvent(signal)
                 /\ event.event = signal.signal
        /\ C28_Yielded("ViewCreated", plugin)
              \o C28_Tagged(signals.streams[plugin].view_created, plugin)
             = C28_Tagged(SelectSeq(signals.emitted, LAMBDA s : s.signal = "ViewCreated"),
                          plugin)
        /\ C28_Yielded("ViewEvent", plugin)
              \o C28_Tagged(signals.streams[plugin].view_event, plugin)
             = C28_Tagged(SelectSeq(signals.emitted, LAMBDA s : s.signal = "ViewEvent"),
                          plugin)

\* p1 was delivered its ViewCreated and its ViewEvent, and its streams have
\* dropped the ViewCreated of p2
C28_Witness ==
    /\ Len(signals.emitted) = 3
    /\ \E k \in 1..3 : signals.emitted[k].plugin_uuid = "p2"
    /\ Len(signals.event_stream["p1"]) = 2
    /\ signals.event_stream["p1"][1].event = "ViewCreated"
    /\ signals.event_stream["p1"][2].event = "ViewEvent"
    /\ signals.streams["p1"].view_created = <<>>
    /\ signals.streams["p1"].view_event = <<>>

\* C29: when the event stream yields a ViewEvent for a widget, it has yielded
\* before it the ViewCreated of the view the widget was created in
C29_ViewCreatedBeforeItsEvents ==
    \A plugin \in PluginIds :
        \A k \in 1..Len(signals.event_stream[plugin]) :
            signals.event_stream[plugin][k].event = "ViewEvent"
                => \E j \in 1..(k - 1) :
                      /\ signals.event_stream[plugin][j].event = "ViewCreated"
                      /\ signals.event_stream[plugin][j].signal
                           = signals.event_stream[plugin][k].view

\* C36: at any time at most one runtime of a plugin id is alive
C36_AtMostOneLiveRuntime ==
    \A id \in PluginIds :
        Cardinality({i \in AliveRuntimes : runtimes[i].id = id}) <= 1

\* C37: no call of a command-emitting operation aborts
C37_NoCommandEmitterAborts ==
    \A t \in Tasks : tasks[t].result # "panic"

\* the commands addressed to a runtime among those its receiver has passed
C38_Passed(rt, commands) ==
    SelectSeq(SubSeq(commands, rt.start + 1, rt.next), LAMBDA cmd : CommandIsFor(rt.id, cmd))

\* C38: a runtime observes only commands sent after its receiver was
\* subscribed in start_plugin; reload_plugin sends the Stop for the old
\* runtime while it holds no receiver, subscribes after it, and the runtime it
\* spawns starts with that receiver and has observed nothing, so the new
\* runtime never observes its predecessor's Stop
C38_NewRuntimeMissesOldStop ==
    [][/\ \A i \in 1..Len(runtimes') :
            LET rt == runtimes'[i]
            IN /\ rt.start <= rt.next
               /\ rt.next <= Len(command_broadcaster')
               /\ rt.skipped = <<>> => rt.seen = C38_Passed(rt, command_broadcaster')
       /\ \A t \in Tasks :
            LET call == tasks[t]
                after == tasks'[t]
            IN (after # call /\ call.op = "reload_plugin")
               => /\ call.pc = "stop_plugin"
                      => call.receiver = NoReceiver /\ after.receiver = NoReceiver
                  /\ call.pc = "start_plugin.subscribe"
                      => /\ after.receiver = <<Len(command_broadcaster)>>
                         /\ call.currently_running
                              => \E k \in 1..Len(command_broadcaster) :
                                    command_broadcaster[k] = stop_plugin_command(call.plugin_id)
                  /\ (call.pc = "start_plugin.spawn" /\ Len(runtimes') > Len(runtimes))
                      => LET rt == runtimes'[Len(runtimes')]
                         IN /\ rt.id = call.plugin_id
                            /\ rt.start = call.receiver[1]
                            /\ rt.next = rt.start
                            /\ rt.seen = <<>>
    ]_vars

\* reload_plugin of a running plugin returned Ok: the old runtime ended on the
\* Stop, the new one has passed every command and is alive
C38_Witness ==
    \E t \in Tasks, i, j \in 1..Len(runtimes) :
        /\ tasks[t].op = "reload_plugin" /\ tasks[t].result = "ok"
        /\ tasks[t].currently_running
        /\ i < j
        /\ runtimes[i].id = tasks[t].plugin_id /\ runtimes[j].id = tasks[t].plugin_id
        /\ ~runtimes[i].alive
        /\ runtimes[i].seen # <<>>
        /\ runtimes[i].seen[Len(runtimes[i].seen)] = stop_plugin_command(runtimes[i].id)
        /\ runtimes[j].alive
        /\ runtimes[j].start >= 1
        /\ runtimes[j].next = Len(command_broadcaster)
        /\ runtimes[j].seen = <<>>

\* C39: when two set_preference_value calls for two different names of the
\* same record have both returned Ok, the record holds both values
C39_BothPreferencesPersisted ==
    \A t, u \in Tasks :
        (/\ t # u
         /\ tasks[t].op = "set_preference_value" /\ tasks[t].result = "ok"
         /\ tasks[u].op = "set_preference_value" /\ tasks[u].result = "ok"
         /\ PreferenceRecord(tasks[t].plugin_id, tasks[t].arg)
              = PreferenceRecord(tasks[u].plugin_id, tasks[u].arg)
         /\ tasks[t].preference_name # tasks[u].preference_name)
        => LET record == PreferenceRecord(tasks[t].plugin_id, tasks[t].arg)
           IN /\ preferences_user_data[record][tasks[t].preference_name]
                   = tasks[t].preference_value
              /\ preferences_user_data[record][tasks[u].preference_name]
                   = tasks[u].preference_value

\* the ids of the entries of a list of actions or of user entries
C35_Ids(entries) == {entries[i].id : i \in 1..Len(entries)}

\* C35: action_shortcuts returns one shortcut per declared action id and none
\* for any other id; the shortcut has the key and kind of the user's entry for
\* that id when there is one, and those of the declared action otherwise
C35_UserOverrideWins ==
    shortcuts.returned = "ok"
    => LET actions == shortcuts.actions
           user == shortcuts.actions_user_data
           result == shortcuts.result
       IN /\ DOMAIN result = C35_Ids(actions)
          /\ \A id \in DOMAIN result :
                IF id \in C35_Ids(user)
                THEN \E j \in 1..Len(user) :
                        /\ user[j].id = id
                        /\ result[id].key = user[j].key
                        /\ result[id].kind = ActionShortcutKind(user[j].kind)
                ELSE \E i \in 1..Len(actions) :
                        /\ actions[i].id = id
                        /\ result[id].key = actions[i].key
                        /\ result[id].kind = ActionShortcutKind(actions[i].kind)
          /\ \A id \in C35_Ids(user) \ C35_Ids(actions) : id \notin DOMAIN result

\* two declared actions, a user entry for one of them with another key and
\* kind, and a user entry for an action that is not declared
C35_Witness ==
    /\ shortcuts.returned = "ok"
    /\ shortcuts.actions = <<[id |-> "a1", key |-> "k1", kind |-> "db_main"],
                             [id |-> "a2", key |-> "k1", kind |-> "db_main"]>>
    /\ shortcuts.actions_user_data = <<[id |-> "a1", key |-> "k2", kind |-> "db_alternative"],
                                       [id |-> "a3", key |-> "k2", kind |-> "db_main"]>>
    /\ shortcuts.result = [a1 |-> [key |-> "k2", kind |-> "Alternative"],
                           a2 |-> [key |-> "k1", kind |-> "Main"]]

\* a name of a plugin module: one or more letters, digits, underscores and
\* hyphens
C34_Name(name) ==
    Len(name) >= 1 /\ \A i \in 1..Len(name) : name[i] \in EntrypointIdChars \cup WordChars

\* the referrer is plugin code: plugin:view?<entrypoint> or plugin:module?<entrypoint>
C34_PluginCode(referrer) ==
    \E prefix \in {"plugin:view?", "plugin:module?"}, name \in ModuleNames :
        C34_Name(name) /\ referrer = Str(prefix, name, "")

\* the import is "./<name>.js" from plugin code
C34_Relative(import, name) ==
    /\ C34_Name(name)
    /\ import.specifier = Str("./", name, ".js")
    /\ C34_PluginCode(import.referrer)

\* a relative import from plugin code resolves to plugin:module?<name>
C34_Resolves ==
    \A i \in 1..Len(module_loader.imports), name \in ModuleNames :
        LET import == module_loader.imports[i]
        IN (import.resolved.tag # "none" /\ C34_Relative(import, name))
           => import.resolved = ResolveOk(Url_parse(Str("plugin:module?", name, "")))

\* loading plugin:view?<name> or plugin:module?<name> returns the script the
\* plugin has stored under <name>
C34_Loads ==
    \A i \in 1..Len(module_loader.imports), name \in DOMAIN module_loader.js :
        LET import == module_loader.imports[i]
        IN (/\ import.loaded.tag # "none"
            /\ import.resolved.url \in {Url_parse(Str("plugin:view?", name, "")),
                                        Url_parse(Str("plugin:module?", name, ""))})
           => import.loaded = [tag |-> "ok", source |-> module_loader.js[name]]

\* every other import that is not one of the four fixed modules or a plugin
\* view is rejected
C34_Rejects ==
    \A i \in 1..Len(module_loader.imports) :
        LET import == module_loader.imports[i]
        IN (/\ import.resolved.tag # "none"
            /\ ~\E name \in ModuleNames : C34_Relative(import, name)
            /\ import.specifier \notin {<<"plugin:core">>, <<"plugin:renderer">>, <<"react">>,
                                        <<"react/jsx-runtime">>}
            /\ ~\E name \in ModuleNames :
                    C34_Name(name) /\ import.specifier = Str("plugin:view?", name, ""))
           => import.resolved = ResolveErr

\* C34: a relative import "./<name>.js" from plugin code resolves to
\* plugin:module?<name>, loading plugin:view?<name> or plugin:module?<name>
\* returns the plugin's script stored under <name>, and every other import
\* that names neither a fixed module nor a plugin view is rejected
C34_RelativeImportResolves ==
    /\ C34_Resolves
    /\ C34_Loads
    /\ C34_Rejects

\* the entrypoints of plugin_id a reader of the pool sees
C33_Visible(plugin_id) == {row[2] : row \in {e \in pool.plugin_entrypoint : e[1] = plugin_id}}

\* the entrypoints given to the save_plugin calls of plugin_id that returned Ok
C33_Saved(plugin_id) ==
    {{pool.tx[k].entrypoints[i] : i \in 1..Len(pool.tx[k].entrypoints)} :
        k \in {j \in 1..Len(pool.tx) : pool.tx[j].plugin_id = plugin_id /\ pool.tx[j].result = "ok"}}

\* C33: save_plugin is atomic. A plugin is visible exactly when a save_plugin
\* call of it has returned Ok, and then with exactly the entrypoints that call
\* was given; a call that failed at any step, or has not committed yet, has
\* left no plugin row and no entrypoint row visible; and every pair a
\* list_plugins_and_entrypoints call has collected holds a plugin with exactly
\* the entrypoints its save_plugin was given, never a part of them
C33_SavePluginIsAtomic ==
    /\ \A plugin_id \in PluginIds :
        IF C33_Saved(plugin_id) = {}
        THEN plugin_id \notin pool.plugin /\ C33_Visible(plugin_id) = {}
        ELSE plugin_id \in pool.plugin /\ C33_Saved(plugin_id) = {C33_Visible(plugin_id)}
    /\ \A k \in 1..Len(pool.tx) :
        pool.tx[k].result = "err" => pool.tx[k].plugin = {} /\ pool.tx[k].plugin_entrypoint = {}
    /\ \A r \in 1..Len(pool.readers) :
        \A i \in 1..Len(pool.readers[r].result) :
            C33_Saved(pool.readers[r].result[i].plugin) = {pool.readers[r].result[i].entrypoints}

\* a save_plugin with three entrypoints failed at the second one after the
\* plugin and the first entrypoint were inserted, and nothing of it is visible
C33_Witness ==
    \E k \in 1..Len(pool.tx) :
        /\ Len(pool.tx[k].entrypoints) = 3
        /\ pool.tx[k].result = "err"
        /\ pool.tx[k].failed_at = "insert_entrypoint"
        /\ pool.tx[k].next = 2
        /\ pool.tx[k].plugin_id \notin pool.plugin
        /\ C33_Visible(pool.tx[k].plugin_id) = {}

\* a list_plugins_and_entrypoints call is between its queries, with one
\* plugin collected, while a save_plugin of another plugin has inserted the
\* plugin and the first of its entrypoints and not committed
C33_WitnessReader ==
    \E k \in 1..Len(pool.tx), r \in 1..Len(pool.readers) :
        /\ pool.tx[k].pc = "insert_entrypoint"
        /\ pool.tx[k].next = 2
        /\ pool.tx[k].plugin = {pool.tx[k].plugin_id}
        /\ pool.readers[r].pc = "entrypoints"
        /\ Len(pool.readers[r].result) = 1
        /\ pool.readers[r].result[1].plugin # pool.tx[k].plugin_id
        /\ pool.readers[r].result[1].entrypoints # {}

\* C32: a host operation that touches a resource outside the capability set
\* of the plugin is denied; with an empty capability set every one is
C32_UngrantedIsDenied ==
    \A i \in 1..Len(permissions.accesses) :
        permissions.accesses[i].resource \notin permissions.plugin
        => permissions.accesses[i].outcome = "denied"

\* the requests of plugin's host ops whose round-trip to the UI process failed
C31_Failed(plugin) ==
    {i \in 1..Len(ui_ops) :
        ui_ops[i].side = "host" /\ ui_ops[i].plugin = plugin /\ ui_ops[i].wire = "err"}

\* the worker of plugin has met no panic of a host op yet
C31_WorkerRunning(plugin) ==
    \A i \in 1..Len(ui_ops) :
        (ui_ops[i].side = "host" /\ ui_ops[i].plugin = plugin) => ui_ops[i].state # "aborted"

\* after a failed round-trip the UI process is handed no further request of
\* the plugin
C31_NothingMoreProcessed ==
    \A plugin \in PluginIds :
        \A failed \in C31_Failed(plugin) :
            /\ ui_handler[plugin].state = "dead"
            /\ \A h \in 1..Len(ui_process) :
                (ui_process[h].side = "host" /\ ui_process[h].plugin = plugin)
                => ui_process[h].request < failed

\* the failed request, those pending behind it and every later host op of the
\* plugin get no response and do not return
C31_OpsFail ==
    \A plugin \in PluginIds :
        \A failed \in C31_Failed(plugin) :
            \A i \in failed..Len(ui_ops) :
                (/\ ui_ops[i].side = "host"
                 /\ ui_ops[i].plugin = plugin
                 /\ C31_WorkerRunning(plugin))
                => ui_ops[i].state # "returned" /\ ui_ops[i].slot # "fulfilled"

\* the request loop of a plugin ends only on a failed round-trip of its own
C31_OthersKeepRunning ==
    \A plugin \in PluginIds :
        ui_handler[plugin].state = "dead" => C31_Failed(plugin) # {}

\* C31: a failed round-trip to the UI process is terminal for the plugin it
\* belongs to and for no other: no further request of that plugin is
\* processed, every pending or later host op of that plugin fails, and the
\* request loops of the other plugins go on
C31_WireFailureIsTerminal ==
    /\ C31_NothingMoreProcessed
    /\ C31_OpsFail
    /\ C31_OthersKeepRunning

====
